---- MODULE Spec2Model ----
(***************************************************************************)
(* react-form-shield: the anti-spam decision engine.                       *)
(*                                                                         *)
(*   server  src/src/server/validators.ts, middleware/express.ts, next.ts  *)
(*   client  src/src/client/hooks/useFormShield.ts, src/src/client/index.ts*)
(*           src/unnamed/part_007 (useTimeDelay), part_009 (useChallenge)  *)
(*                                                                         *)
(* Times are epoch milliseconds (Date.now()).  Where the code divides a    *)
(* difference of timestamps by 1000 and compares seconds, the model        *)
(* compares the same quantities in milliseconds, every term multiplied by  *)
(* 1000, so that the arithmetic stays in the integers.  JavaScript strings *)
(* that the code searches or compares by content (object keys, typed       *)
(* answers) are tuples of one-character strings.                           *)
(***************************************************************************)
EXTENDS Integers, Sequences, FiniteSets, TLC

VARIABLES
    \* ---- server: one request/response exchange ----
    req,          \* the request: [method, body]
    options,      \* the options object handed to the validator / middleware
    ret,          \* the value returned by a validator call (the middleware's `result')
    res,          \* the response: [status, json], status 0 = nothing written
    nextCalls,    \* how many times the protected continuation was invoked
    called,       \* which operation has acted on the request ("none" before)
    sender,       \* who built the body: "test" (drawn), "client", "forger", "none"
    \* ---- client: one useFormShield instance ----
    clock,                  \* Date.now()
    settings,               \* the merged AntiSpamSettings
    honeypotFieldName,
    requiredDelay,          \* seconds
    firstFocusTime,
    formFocusTracked,
    showChallengeDialog,
    pendingTimers,          \* setTimeout callbacks scheduled and not yet run
    challenge,
    challengeAnswer,
    formValues,
    challengeMetrics,
    currentChallengeNumber,
    challengeStartTime,
    \* what the handler that has just run gave back (null after any other step)
    verdict,                \* the AntiSpamCheckResult it returned
    lastError,              \* the message it handed to onError
    successArgs,            \* the arguments it called onSuccess with
    onSuccessCalls,         \* how many times onSuccess was invoked so far
    correctAnswers,         \* how many correct answers were given so far
    clientPassed,           \* the client decision let the submission through
    submitted,              \* the call of the wrapped submit an adapter has just made
    \* ---- client: the single-purpose hooks ----
    mounted,                \* which hook the component under test has mounted
    timeDelay,              \* the state of a useTimeDelay instance
    challengeHook,          \* the state of a useChallenge instance
    \* ---- client: what a form is set up with ----
    registry,               \* the type identifiers registered in challengeRegistry
    generated,              \* what challengeRegistry.generateChallenge has just done
    providerSettings,       \* the settings prop of the enclosing FormShieldProvider
    formShieldOptions       \* the options useFormShield was called with

serverVars == <<req, options, ret, res, nextCalls, called, sender>>

clientVars ==
    <<clock, settings, honeypotFieldName, requiredDelay, firstFocusTime,
      formFocusTracked, showChallengeDialog, pendingTimers, challenge,
      challengeAnswer, formValues, challengeMetrics, currentChallengeNumber,
      challengeStartTime, verdict, lastError, successArgs, onSuccessCalls,
      correctAnswers, clientPassed, submitted>>

hookVars == <<mounted, timeDelay, challengeHook>>

setupVars == <<registry, generated, providerSettings, formShieldOptions>>

vars == <<serverVars, clientVars, hookVars, setupVars>>

-----------------------------------------------------------------------------
(* Bounds of the model                                                     *)

MaxChallengeCount == 2      \* completed / required counts drawn for a body

-----------------------------------------------------------------------------
(* JavaScript values                                                       *)

NullNum == -1                       \* null where a number is expected
NullObj == [isNull |-> TRUE]        \* null / undefined where an object is expected
NullStr == "<null>"                 \* null where a string is expected

\* a handler that returns no verdict, reports no error, calls no onSuccess
NoVerdict == verdict' = NullObj
NoError == lastError' = NullStr
NoSuccess == successArgs' = NullObj
NoSubmit == submitted' = NullObj

\* !x for a number-or-null
FalsyNum(x) == x = NullNum \/ x = 0
\* !x for a string held as a tuple of characters
FalsyStr(s) == s = <<>>
\* x || d for a string-or-null
OrElse(s, d) == IF s = NullStr \/ s = "" THEN d ELSE s

\* String.prototype.includes
Includes(s, sub) ==
    \E i \in 0..(Len(s) - Len(sub)) : SubSeq(s, i + 1, i + Len(sub)) = sub

-----------------------------------------------------------------------------
(* Object keys of a request body                                           *)

K_firstFocusTime == <<"f", "i", "r", "s", "t", "F", "o", "c", "u", "s", "T", "i", "m", "e">>
K_submissionTime == <<"s", "u", "b", "m", "i", "s", "s", "i", "o", "n", "T", "i", "m", "e">>
K_challengeCompleted == <<"c", "h", "a", "l", "l", "e", "n", "g", "e", "C", "o", "m", "p", "l", "e", "t", "e", "d">>
K_challengeMetrics == <<"c", "h", "a", "l", "l", "e", "n", "g", "e", "M", "e", "t", "r", "i", "c", "s">>
K_antiSpamSettings == <<"a", "n", "t", "i", "S", "p", "a", "m", "S", "e", "t", "t", "i", "n", "g", "s">>

KnownFields ==
    {K_firstFocusTime, K_submissionTime, K_challengeCompleted,
     K_challengeMetrics, K_antiSpamSettings}

P_input == <<"_", "i", "n", "p", "u", "t">>
P_field == <<"_", "f", "i", "e", "l", "d">>
P_data == <<"_", "d", "a", "t", "a">>
P_value == <<"_", "v", "a", "l", "u", "e">>
P_entry == <<"_", "e", "n", "t", "r", "y">>

\* the patterns without '_data'
HoneypotPatterns_noData == {P_input, P_field, P_value, P_entry}

HoneypotPatterns == {P_input, P_field, P_data, P_value, P_entry}

\* field names a form may carry besides the form-shield data
K_name == <<"n", "a", "m", "e">>
K_contact_input == <<"c", "o", "n", "t", "a", "c", "t", "_", "i", "n", "p", "u", "t">>
K_user_data_id == <<"u", "s", "e", "r", "_", "d", "a", "t", "a", "_", "i", "d">>

\* field values
V_empty == <<>>
V_text == <<"B", "o", "t">>

\* A body is a record of the five known fields plus `fields', a function
\* from the other keys of the object to their (string) values.
BodyKeys(body) == KnownFields \cup DOMAIN body.fields

\* !body[key]
BodyFalsy(body, key) ==
    IF key = K_firstFocusTime THEN FalsyNum(body.firstFocusTime)
    ELSE IF key = K_submissionTime THEN FalsyNum(body.submissionTime)
    ELSE IF key = K_challengeCompleted THEN ~body.challengeCompleted
    ELSE IF key = K_challengeMetrics THEN body.challengeMetrics = NullObj
    ELSE IF key = K_antiSpamSettings THEN body.antiSpamSettings = NullObj
    ELSE FalsyStr(body.fields[key])

-----------------------------------------------------------------------------
(* src/src/server/validators.ts                                            *)

DEFAULT_OPTIONS ==
    [honeypotCheck |-> TRUE, timeDelayCheck |-> TRUE, challengeCheck |-> TRUE,
     minSubmissionTime |-> 10, challengeTimeValue |-> 5]

Result(valid, error, isBot) == [valid |-> valid, error |-> error, isBot |-> isBot]

ValidResult == Result(TRUE, NullStr, FALSE)

\* String.prototype.endsWith
EndsWith(s, sub) ==
    /\ Len(s) >= Len(sub)
    /\ SubSeq(s, Len(s) - Len(sub) + 1, Len(s)) = sub

\* the filter of validateHoneypot matching the patterns at the end of the key
honeypotFields_endsWith(body) ==
    {key \in BodyKeys(body) :
        /\ ~BodyFalsy(body, key)
        /\ key \notin KnownFields
        /\ \E p \in HoneypotPatterns : EndsWith(key, p)}

\* the keys kept by the filter of validateHoneypot
honeypotFields(body) ==
    {key \in BodyKeys(body) :
        /\ ~BodyFalsy(body, key)
        /\ key \notin KnownFields
        /\ \E p \in HoneypotPatterns : Includes(key, p)}

\* validateHoneypot rejecting without a message
validateHoneypot_silent(body) ==
    IF Cardinality(honeypotFields(body)) > 0
    THEN Result(FALSE, NullStr, TRUE)
    ELSE ValidResult

validateHoneypot(body) ==
    IF Cardinality(honeypotFields(body)) > 0
    THEN Result(FALSE, "Honeypot field detected", TRUE)
    ELSE ValidResult

\* challengeMetrics?.completedChallenges || 0
completedOrZero(body) ==
    IF body.challengeMetrics = NullObj THEN 0
    ELSE body.challengeMetrics.completedChallenges

\* validateTimeDelay without the credit of the completed challenges
validateTimeDelay_noCredit(body, minSubmissionTime, challengeTimeValue) ==
    IF FalsyNum(body.firstFocusTime)
    THEN Result(FALSE, "Unable to verify form interaction. Please try again.", FALSE)
    ELSE IF body.submissionTime - body.firstFocusTime < minSubmissionTime * 1000
    THEN Result(FALSE, "Form submitted too quickly. Please try again.", FALSE)
    ELSE ValidResult

validateTimeDelay(body, minSubmissionTime, challengeTimeValue) ==
    IF FalsyNum(body.firstFocusTime)
    THEN Result(FALSE, "Unable to verify form interaction. Please try again.", FALSE)
    ELSE LET elapsedMs == body.submissionTime - body.firstFocusTime
             challengeTimeCredit == completedOrZero(body) * challengeTimeValue
         IN  IF elapsedMs + challengeTimeCredit * 1000 < minSubmissionTime * 1000
             THEN Result(FALSE, "Form submitted too quickly. Please try again.", FALSE)
             ELSE ValidResult

\* validateChallenge without the check of the required count
validateChallenge_noRequired(body) ==
    IF ~body.challengeCompleted
    THEN Result(FALSE, "Human verification required. Please complete the challenge.", FALSE)
    ELSE IF body.challengeMetrics = NullObj
    THEN Result(FALSE, "Invalid challenge metrics. Please try again.", FALSE)
    ELSE IF body.challengeMetrics.completedChallenges < 1
    THEN Result(FALSE, "Challenge not completed. Please try again.", FALSE)
    ELSE ValidResult

validateChallenge(body) ==
    IF ~body.challengeCompleted
    THEN Result(FALSE, "Human verification required. Please complete the challenge.", FALSE)
    ELSE IF body.challengeMetrics = NullObj
    THEN Result(FALSE, "Invalid challenge metrics. Please try again.", FALSE)
    ELSE IF body.challengeMetrics.completedChallenges < 1
    THEN Result(FALSE, "Challenge not completed. Please try again.", FALSE)
    ELSE IF /\ body.challengeMetrics.requiredChallenges > 0
            /\ body.challengeMetrics.completedChallenges
                   < body.challengeMetrics.requiredChallenges
    THEN Result(FALSE,
                "Please complete all required challenges ("
                    \o ToString(body.challengeMetrics.completedChallenges) \o "/"
                    \o ToString(body.challengeMetrics.requiredChallenges)
                    \o " completed).",
                FALSE)
    ELSE ValidResult

\* { ...DEFAULT_OPTIONS, ...options }: options is a record holding any
\* subset of the five keys
mergedOptions(opts) ==
    [k \in DOMAIN DEFAULT_OPTIONS |->
        IF k \in DOMAIN opts THEN opts[k] ELSE DEFAULT_OPTIONS[k]]

\* validateFormShield running the time-delay check before the honeypot check
validateFormShield_timeFirst(body, opts) ==
    LET m == mergedOptions(opts)
        honeypotResult == validateHoneypot(body)
        timeDelayResult ==
            validateTimeDelay(body, m.minSubmissionTime, m.challengeTimeValue)
        challengeResult == validateChallenge(body)
    IN  IF /\ m.timeDelayCheck
           /\ ~timeDelayResult.valid
           /\ ~(m.challengeCheck /\ body.challengeCompleted)
        THEN timeDelayResult
        ELSE IF m.honeypotCheck /\ ~honeypotResult.valid THEN honeypotResult
        ELSE IF m.challengeCheck /\ ~challengeResult.valid THEN challengeResult
        ELSE ValidResult

\* validateFormShield waiving the time failure whenever challengeCheck is on
validateFormShield_waiveAlways(body, opts) ==
    LET m == mergedOptions(opts)
        honeypotResult == validateHoneypot(body)
        timeDelayResult ==
            validateTimeDelay(body, m.minSubmissionTime, m.challengeTimeValue)
        challengeResult == validateChallenge(body)
    IN  IF m.honeypotCheck /\ ~honeypotResult.valid THEN honeypotResult
        ELSE IF m.timeDelayCheck /\ ~timeDelayResult.valid /\ ~m.challengeCheck
        THEN timeDelayResult
        ELSE IF m.challengeCheck /\ ~challengeResult.valid THEN challengeResult
        ELSE ValidResult

\* validateFormShield leaving out the checks the shipped settings switch off
validateFormShield_shippedSettings(body, opts) ==
    LET m == mergedOptions(opts)
        a == body.antiSpamSettings
        honeypotResult == validateHoneypot(body)
        timeDelayResult ==
            validateTimeDelay(body, m.minSubmissionTime, m.challengeTimeValue)
        challengeResult == validateChallenge(body)
    IN  IF m.honeypotCheck /\ ~honeypotResult.valid THEN honeypotResult
        ELSE IF /\ m.timeDelayCheck
                /\ (a = NullObj \/ a.ENABLE_TIME_DELAY)
                /\ ~timeDelayResult.valid
                /\ ~(m.challengeCheck /\ body.challengeCompleted)
        THEN timeDelayResult
        ELSE IF m.challengeCheck /\ ~challengeResult.valid THEN challengeResult
        ELSE ValidResult

validateFormShield(body, opts) ==
    LET m == mergedOptions(opts)
        honeypotResult == validateHoneypot(body)
        timeDelayResult ==
            validateTimeDelay(body, m.minSubmissionTime, m.challengeTimeValue)
        challengeResult == validateChallenge(body)
    IN  IF m.honeypotCheck /\ ~honeypotResult.valid THEN honeypotResult
        ELSE IF /\ m.timeDelayCheck
                /\ ~timeDelayResult.valid
                /\ ~(m.challengeCheck /\ body.challengeCompleted)
        THEN timeDelayResult
        ELSE IF m.challengeCheck /\ ~challengeResult.valid THEN challengeResult
        ELSE ValidResult

-----------------------------------------------------------------------------
(* More JavaScript strings                                                 *)

UpperCase == <<"A", "B", "C", "D", "E", "F", "G", "H", "I", "J", "K", "L", "M",
               "N", "O", "P", "Q", "R", "S", "T", "U", "V", "W", "X", "Y", "Z">>
LowerCase == <<"a", "b", "c", "d", "e", "f", "g", "h", "i", "j", "k", "l", "m",
               "n", "o", "p", "q", "r", "s", "t", "u", "v", "w", "x", "y", "z">>

\* String.prototype.toLowerCase
ToLowerCase(s) ==
    [i \in 1..Len(s) |->
        IF \E j \in 1..26 : UpperCase[j] = s[i]
        THEN LowerCase[CHOOSE j \in 1..26 : UpperCase[j] = s[i]]
        ELSE s[i]]

\* String.prototype.toUpperCase
ToUpperCase(s) ==
    [i \in 1..Len(s) |->
        IF \E j \in 1..26 : LowerCase[j] = s[i]
        THEN UpperCase[CHOOSE j \in 1..26 : LowerCase[j] = s[i]]
        ELSE s[i]]

\* String.prototype.trim
RECURSIVE TrimStart(_)
TrimStart(s) == IF s # <<>> /\ Head(s) = " " THEN TrimStart(Tail(s)) ELSE s

RECURSIVE TrimEnd(_)
TrimEnd(s) ==
    IF s # <<>> /\ s[Len(s)] = " " THEN TrimEnd(SubSeq(s, 1, Len(s) - 1)) ELSE s

Trim(s) == TrimEnd(TrimStart(s))

-----------------------------------------------------------------------------
(* src/unnamed/part_005 (client/constants), src/src/client/index.ts (utils)*)

ANTI_SPAM_FEATURES ==
    [ENABLE_TIME_DELAY |-> TRUE, ENABLE_CHALLENGE_DIALOG |-> TRUE,
     ENABLE_HONEYPOT |-> TRUE, ENABLE_MULTIPLE_CHALLENGES |-> TRUE,
     CHALLENGE_TIME_VALUE |-> 5, MAX_CHALLENGES |-> 3]

MIN_SUBMISSION_TIME == 10
MAX_RANDOM_DELAY == 5

\* the values of Math.floor(Math.random() * (MAX_RANDOM_DELAY + 1)) drawn in
\* the model: the least and the greatest
\* generateHoneypotFieldName: every `${prefix}_${suffix}` it can return
HoneypotPrefixes ==
    {<<"c", "o", "n", "t", "a", "c", "t">>,
     <<"u", "s", "e", "r">>,
     <<"i", "n", "f", "o">>,
     <<"d", "a", "t", "a">>,
     <<"f", "o", "r", "m">>}

HoneypotSuffixes ==
    {<<"f", "i", "e", "l", "d">>,
     <<"i", "n", "p", "u", "t">>,
     <<"v", "a", "l", "u", "e">>,
     <<"e", "n", "t", "r", "y">>,
     <<"d", "a", "t", "a">>}

generateHoneypotFieldName ==
    {prefix \o <<"_">> \o suffix :
        prefix \in HoneypotPrefixes, suffix \in HoneypotSuffixes}

RandomDelayDraws == {0, MAX_RANDOM_DELAY}

\* the values getRandomDelay() returns on those draws
getRandomDelay == { MIN_SUBMISSION_TIME + d : d \in RandomDelayDraws }

\* the answers of the challenges generateChallenge() can return: a sum of two
\* numbers from 1 to 10, or one of the five fixed answers
A_blue == <<"b", "l", "u", "e">>
A_seven == <<"7">>

\* the challenges drawn in the model, out of those generateChallenge() returns
generateChallenge == { [answer |-> A_blue], [answer |-> A_seven] }

\* Math.ceil(a / b) for a > 0, b > 0
CeilDiv(a, b) == (a + b - 1) \div b

Min(a, b) == IF a <= b THEN a ELSE b

\* calculateRequiredChallenges without the cap of MAX_CHALLENGES
calculateRequiredChallenges_uncapped(timeDeficitMs, s) ==
    IF timeDeficitMs <= 0 THEN 0
    ELSE CeilDiv(timeDeficitMs, s.CHALLENGE_TIME_VALUE * 1000)

\* calculateRequiredChallenges, the deficit taken in milliseconds
calculateRequiredChallenges(timeDeficitMs, s) ==
    IF timeDeficitMs <= 0 THEN 0
    ELSE Min(CeilDiv(timeDeficitMs, s.CHALLENGE_TIME_VALUE * 1000), s.MAX_CHALLENGES)

\* mergeSettings: userSettings is NullObj or a record of any subset of the keys
mergeSettings(userSettings) ==
    IF userSettings = NullObj THEN ANTI_SPAM_FEATURES
    ELSE [k \in DOMAIN ANTI_SPAM_FEATURES |->
            IF k \in DOMAIN userSettings THEN userSettings[k]
            ELSE ANTI_SPAM_FEATURES[k]]

\* the own properties of an object, none for null / undefined (as spread
\* syntax sees it)
Props(o) == IF o = NullObj THEN [k \in {} |-> 0] ELSE o

\* { ...a, ...b }
Spread(a, b) ==
    [k \in DOMAIN Props(a) \cup DOMAIN Props(b) |->
        IF k \in DOMAIN Props(b) THEN Props(b)[k] ELSE Props(a)[k]]

\* options.x of an options object, undefined (null) when the key is absent
Option(opts, key, null) ==
    IF key \in DOMAIN Props(opts) THEN Props(opts)[key] ELSE null

-----------------------------------------------------------------------------
(* src/unnamed/part_005 (FormShieldProvider), part_007 (FormShieldContext), *)
(* src/src/client/hooks/useFormShield.ts lines 99-111                      *)

\* the settings of the context value: those of the nearest FormShieldProvider
\* (settingsProp is its settings prop, null when the prop is not given), and
\* of the default context value when there is no provider
FormShieldProvider(settingsProp) == mergeSettings(settingsProp)

\* the merge with the two layers spread in the other order
useFormShield_settings_contextWins(contextSettings, opts) ==
    mergeSettings(Spread(Option(opts, "settings", NullObj), contextSettings))

\* const settings = mergeSettings({...context.settings, ...options.settings})
useFormShield_settings(contextSettings, opts) ==
    mergeSettings(Spread(contextSettings, Option(opts, "settings", NullObj)))

-----------------------------------------------------------------------------
(* src/unnamed/part_012 (client/challenges/registry),                      *)
(* src/src/client/challenges/built-in.ts                                   *)

T_math == "math"
T_text == "text"
T_image_captcha == "image-captcha"

\* the types built-in.ts registers when the module is loaded
BuiltInTypes == {T_math, T_text}

\* the type identifiers an application registers or asks for
\* a type registered by the application with the same validate function as
\* the built-in 'math' type
T_code == "code"

TestTypes == BuiltInTypes \cup {T_image_captcha, T_code}

A_captcha == <<"A", "B", "C", "1", "2", "3">>

\* definition.generate() of a registered type: the challenges drawn in the
\* model
generate(type) ==
    IF type = T_math THEN { [type |-> T_math, answer |-> A_seven] }
    ELSE IF type = T_text THEN { [type |-> T_text, answer |-> A_blue] }
    ELSE { [type |-> type, answer |-> A_captcha] }

Threw(message) == [threw |-> message]

\* the types whose definition has a validate function
TypesWithValidate == {T_math, T_image_captcha, T_code}

\* definition.validate(answer, challenge) of a type that has one
validate(type, answer, ch) ==
    IF type = T_image_captcha
    THEN ToUpperCase(Trim(answer)) = ToUpperCase(ch.answer)
    ELSE Trim(answer) = ch.answer

\* validateAnswer never using the definition's validate function
challengeRegistry_validateAnswer_defaultOnly(types, answer, ch) ==
    ToLowerCase(Trim(answer)) = ToLowerCase(ch.answer)

\* challengeRegistry.validateAnswer(answer, challenge); a challenge without
\* type, or of a type not registered, has no definition
challengeRegistry_validateAnswer(types, answer, ch) ==
    LET definition ==
            IF "type" \in DOMAIN ch /\ ch.type \in types THEN ch.type
            ELSE NullStr
    IN  IF definition # NullStr /\ definition \in TypesWithValidate
        THEN validate(definition, answer, ch)
        ELSE ToLowerCase(Trim(answer)) = ToLowerCase(ch.answer)

\* generateChallenge falling back to a random registered type when the type
\* asked for is not registered
challengeRegistry_generateChallenge_fallback(types, type) ==
    IF types = {}
    THEN { Threw("No challenge types registered") }
    ELSE UNION { generate(t) :
                 t \in IF type \in types THEN {type} ELSE types }

\* challengeRegistry.generateChallenge(type), with getRandomType(): every
\* outcome of the call, a challenge or the error thrown; type is NullStr
\* when the argument is left out
challengeRegistry_generateChallenge(types, type) ==
    IF type = NullStr \/ type = ""
    THEN IF types = {}
         THEN { Threw("No challenge types registered") }
         ELSE UNION { generate(t) : t \in types }
    ELSE IF type \in types
    THEN generate(type)
    ELSE { Threw("Challenge type '" \o type \o "' not registered") }

-----------------------------------------------------------------------------
(* Bounds and inputs of the client                                         *)

MaxTicks == 1               \* how many times the clock advances
MaxCorrectAnswers == 2      \* cap on the correct answers given to one form
MaxPendingTimers == 1       \* cap on scheduled, not yet run, dialog timers

TickMs == 10 * 1000         \* the clock advances by ten seconds
StartTime == 1000           \* Date.now() when the form is mounted

\* the options.settings a form instance is created with
TestUserSettings ==
    { NullObj,
      [ENABLE_MULTIPLE_CHALLENGES |-> FALSE],
      [ENABLE_CHALLENGE_DIALOG |-> FALSE],
      [ENABLE_TIME_DELAY |-> FALSE],
      [ENABLE_HONEYPOT |-> FALSE] }

\* the options those settings are passed in
TestFormShieldOptions ==
    { IF u = NullObj THEN [k \in {} |-> 0] ELSE [settings |-> u] :
      u \in TestUserSettings }

\* the values a form is submitted with: by a person (honeypot left empty)
\* and by a bot that fills every field
TestValues ==
    { [k \in {K_name, K_contact_input} |-> IF k = K_name THEN V_text ELSE V_empty],
      [k \in {K_name, K_contact_input} |-> V_text] }

\* what a user types into the challenge dialog
T_blue == <<" ", "B", "l", "u", "e", " ">>
T_red == <<"r", "e", "d">>

TypedAnswers == {T_blue, A_seven, T_red}

NoRequest == [method |-> "NONE", body |-> NullObj]
NoResponse == [status |-> 0, json |-> NullObj]

ZeroMetrics ==
    [completedChallenges |-> 0, totalChallengeTime |-> 0, requiredChallenges |-> 0]

\* the options a useTimeDelay instance is created with
TestTimeDelayOptions ==
    { [k \in {} |-> 0],
      [requiredDelay |-> 11],
      [enabled |-> FALSE],
      [enabled |-> TRUE, requiredDelay |-> 5] }

\* useTimeDelay(options): the instances it can return when mounted
\* (requiredDelay is options.requiredDelay || getRandomDelay())
useTimeDelay(opts) ==
    { [options |-> opts,
       firstFocusTime |-> NullNum,
       formFocusTracked |-> FALSE,
       requiredDelay |-> d] :
      d \in IF "requiredDelay" \in DOMAIN opts /\ opts.requiredDelay # 0
            THEN {opts.requiredDelay} ELSE getRandomDelay }

\* the options a useChallenge instance is created with
TestChallengeOptions ==
    { [k \in {} |-> 0],
      [enableMultipleChallenges |-> TRUE],
      [enableMultipleChallenges |-> TRUE, maxChallenges |-> 2, challengeTimeValue |-> 3] }

\* challengeRegistry.generateChallenge(): the challenges drawn in the model,
\* out of those the built-in types generate
generateNewChallenge == { [answer |-> A_blue], [answer |-> A_seven] }

\* useChallenge(options): the instances it can return when mounted
useChallenge(opts) ==
    { [options |-> opts,
       showChallengeDialog |-> FALSE,
       challenge |-> c,
       challengeAnswer |-> <<>>,
       challengeMetrics |-> ZeroMetrics,
       currentChallengeNumber |-> 1,
       challengeStartTime |-> NullNum] : c \in generateNewChallenge }

\* the state of a hook that has just been mounted (useState / useRef initial
\* values, useFormShield.ts lines 114-134)
ClientMounted ==
    /\ clock = StartTime
    /\ firstFocusTime = NullNum
    /\ formFocusTracked = FALSE
    /\ showChallengeDialog = FALSE
    /\ pendingTimers = 0
    /\ challengeAnswer = <<>>
    /\ formValues = NullObj
    /\ challengeMetrics = ZeroMetrics
    /\ currentChallengeNumber = 1
    /\ challengeStartTime = NullNum
    /\ verdict = NullObj
    /\ lastError = NullStr
    /\ onSuccessCalls = 0
    /\ successArgs = NullObj
    /\ correctAnswers = 0
    /\ clientPassed = FALSE
    /\ submitted = NullObj

\* no form is involved: the client variables of a server-only run
ClientUnmounted ==
    /\ ClientMounted
    /\ mounted = "none"
    /\ timeDelay = NullObj
    /\ challengeHook = NullObj
    /\ settings = ANTI_SPAM_FEATURES
    /\ honeypotFieldName = K_contact_input
    /\ requiredDelay = MIN_SUBMISSION_TIME
    /\ challenge = [answer |-> A_blue]
    /\ registry = BuiltInTypes
    /\ generated = NullObj
    /\ providerSettings = NullObj
    /\ formShieldOptions = NullObj

\* a component that mounts useFormShield
FormShieldMounted ==
    /\ mounted = "useFormShield"
    /\ timeDelay = NullObj
    /\ challengeHook = NullObj
    /\ formShieldOptions \in TestFormShieldOptions
    /\ settings = useFormShield_settings(FormShieldProvider(providerSettings),
                                         formShieldOptions)
    /\ requiredDelay \in getRandomDelay
    /\ challenge \in generateChallenge

\* a component that mounts useTimeDelay or useChallenge alone
SingleHookMounted ==
    /\ \/ /\ mounted = "useTimeDelay"
          /\ timeDelay \in UNION { useTimeDelay(o) : o \in TestTimeDelayOptions }
          /\ challengeHook = NullObj
       \/ /\ mounted = "useChallenge"
          /\ timeDelay = NullObj
          /\ challengeHook \in UNION { useChallenge(o) : o \in TestChallengeOptions }
    /\ formShieldOptions = NullObj
    /\ settings = ANTI_SPAM_FEATURES
    /\ requiredDelay = MIN_SUBMISSION_TIME
    /\ challenge = [answer |-> A_blue]

ClientInit ==
    /\ ClientMounted
    /\ registry = BuiltInTypes
    /\ generated = NullObj
    /\ providerSettings = NullObj
    /\ FormShieldMounted \/ SingleHookMounted
    /\ honeypotFieldName = K_contact_input
    /\ req = NoRequest
    /\ options = [k \in {} |-> 0]
    /\ ret = NullObj
    /\ res = NoResponse
    /\ nextCalls = 0
    /\ called = "none"
    /\ sender = "none"

-----------------------------------------------------------------------------
(* Inputs of the server specification                                      *)

TestTimes == {1000, 6000}            \* firstFocusTime values drawn
TestSubmitTimes == {1000, 11000, 21000}

TestMetrics ==
    {NullObj} \cup
    [completedChallenges : 0..MaxChallengeCount,
     totalChallengeTime : {0},
     requiredChallenges : 0..MaxChallengeCount]

TestFields ==
    { [k \in {K_name} |-> V_text],
      [k \in {K_name, K_contact_input} |-> IF k = K_name THEN V_text ELSE V_empty],
      [k \in {K_name, K_contact_input} |-> V_text],
      [k \in {K_name, K_user_data_id} |-> V_text] }

TestBodies ==
    [firstFocusTime : {NullNum} \cup TestTimes,
     submissionTime : TestSubmitTimes,
     challengeCompleted : BOOLEAN,
     challengeMetrics : TestMetrics,
     antiSpamSettings : {NullObj},
     fields : TestFields]

\* an options object: each key absent or set
TestBoolOptions ==
    UNION { [D -> BOOLEAN] :
              D \in SUBSET {"honeypotCheck", "timeDelayCheck", "challengeCheck"} }

TestNumOptions ==
    { [k \in {} |-> 0],
      [minSubmissionTime |-> 20],
      [challengeTimeValue |-> 10],
      [minSubmissionTime |-> 20, challengeTimeValue |-> 10] }

TestOptions == { b @@ n : b \in TestBoolOptions, n \in TestNumOptions }

ServerInit ==
    /\ req \in [method : {"GET", "POST"}, body : TestBodies]
    /\ options \in TestOptions
    /\ ret = NullObj
    /\ res = NoResponse
    /\ nextCalls = 0
    /\ called = "none"
    /\ sender = "test"
    /\ ClientUnmounted

-----------------------------------------------------------------------------
(* Direct calls of the validators (the unit under test)                    *)

CallValidateHoneypot ==
    /\ called = "none" /\ sender = "test"
    /\ ret' = validateHoneypot(req.body)
    /\ called' = "validateHoneypot"
    /\ UNCHANGED <<req, options, res, nextCalls, sender, clientVars, hookVars, setupVars>>

CallValidateTimeDelay ==
    /\ called = "none" /\ sender = "test"
    /\ ret' = validateTimeDelay(req.body,
                                mergedOptions(options).minSubmissionTime,
                                mergedOptions(options).challengeTimeValue)
    /\ called' = "validateTimeDelay"
    /\ UNCHANGED <<req, options, res, nextCalls, sender, clientVars, hookVars, setupVars>>

CallValidateChallenge ==
    /\ called = "none" /\ sender = "test"
    /\ ret' = validateChallenge(req.body)
    /\ called' = "validateChallenge"
    /\ UNCHANGED <<req, options, res, nextCalls, sender, clientVars, hookVars, setupVars>>

CallValidateFormShield ==
    /\ called = "none" /\ sender # "none"
    /\ ret' = validateFormShield(req.body, options)
    /\ called' = "validateFormShield"
    /\ UNCHANGED <<req, options, res, nextCalls, sender, clientVars, hookVars, setupVars>>

-----------------------------------------------------------------------------
(* src/src/server/middleware/express.ts, next.ts                           *)

\* the bot response sent as a client error
BotResponse_asError ==
    [status |-> 400,
     json |-> [success |-> FALSE, error |-> "Honeypot field detected"]]

BotResponse ==
    [status |-> 200,
     json |-> [success |-> TRUE, message |-> "Form submitted successfully!"]]

\* the error response without the verdict's message
ErrorResponse_generic(result) ==
    [status |-> 400,
     json |-> [success |-> FALSE, error |-> "Invalid form submission"]]

ErrorResponse(result) ==
    [status |-> 400,
     json |-> [success |-> FALSE,
               error |-> OrElse(result.error, "Invalid form submission")]]

\* formShieldMiddleware calling next() without returning on a non-POST request
formShieldMiddleware_noReturn ==
    /\ called = "none" /\ sender = "test"
    /\ called' = "formShieldMiddleware"
    /\ LET result == validateFormShield(req.body, options)
           early == IF req.method # "POST" THEN 1 ELSE 0
       IN  /\ ret' = result
           /\ IF ~result.valid
              THEN /\ res' = IF result.isBot THEN BotResponse
                                             ELSE ErrorResponse(result)
                   /\ nextCalls' = nextCalls + early
              ELSE /\ nextCalls' = nextCalls + early + 1
                   /\ UNCHANGED res
    /\ UNCHANGED <<req, options, sender, clientVars, hookVars, setupVars>>

\* what the middleware returned by formShieldMiddleware(o) does with request
\* r: whether it calls next(), the verdict it computed (NullObj: none) and the
\* response it sends (NoResponse: none)
formShieldMiddleware_handle(r, o) ==
    IF r.method # "POST"
    THEN [next |-> TRUE, result |-> NullObj, response |-> NoResponse]
    ELSE LET result == validateFormShield(r.body, o)
         IN  IF ~result.valid
             THEN [next |-> FALSE, result |-> result,
                   response |-> IF result.isBot THEN BotResponse
                                                ELSE ErrorResponse(result)]
             ELSE [next |-> TRUE, result |-> result, response |-> NoResponse]

\* the middleware returned by formShieldMiddleware(options), run on req
formShieldMiddleware ==
    /\ called = "none" /\ sender = "test"
    /\ called' = "formShieldMiddleware"
    /\ LET did == formShieldMiddleware_handle(req, options)
       IN  /\ nextCalls' = nextCalls + (IF did.next THEN 1 ELSE 0)
           /\ ret' = IF did.result = NullObj THEN ret ELSE did.result
           /\ res' = IF did.response = NoResponse THEN res ELSE did.response
    /\ UNCHANGED <<req, options, sender, clientVars, hookVars, setupVars>>

\* withFormShield answering a bot with the client error
withFormShield_handle_botAsError(r, o) ==
    IF r.method # "POST"
    THEN [next |-> TRUE, result |-> NullObj, response |-> NoResponse]
    ELSE LET result == validateFormShield(r.body, o)
         IN  IF ~result.valid
             THEN [next |-> FALSE, result |-> result,
                   response |-> ErrorResponse(result)]
             ELSE [next |-> TRUE, result |-> result, response |-> NoResponse]

\* what the route handler returned by withFormShield(o, handler) does with
\* request r; next: whether it calls handler(req, res)
withFormShield_handle(r, o) ==
    IF r.method # "POST"
    THEN [next |-> TRUE, result |-> NullObj, response |-> NoResponse]
    ELSE LET result == validateFormShield(r.body, o)
         IN  IF ~result.valid
             THEN [next |-> FALSE, result |-> result,
                   response |-> IF result.isBot THEN BotResponse
                                                ELSE ErrorResponse(result)]
             ELSE [next |-> TRUE, result |-> result, response |-> NoResponse]

\* the route handler returned by withFormShield(options, handler), run on req;
\* nextCalls counts the calls of handler
withFormShield ==
    /\ called = "none" /\ sender = "test"
    /\ called' = "withFormShield"
    /\ LET did == withFormShield_handle(req, options)
       IN  /\ nextCalls' = nextCalls + (IF did.next THEN 1 ELSE 0)
           /\ ret' = IF did.result = NullObj THEN ret ELSE did.result
           /\ res' = IF did.response = NoResponse THEN res ELSE did.response
    /\ UNCHANGED <<req, options, sender, clientVars, hookVars, setupVars>>

ServerNext ==
    \/ CallValidateHoneypot
    \/ CallValidateTimeDelay
    \/ CallValidateChallenge
    \/ CallValidateFormShield
    \/ formShieldMiddleware
    \/ withFormShield

SpecServer == ServerInit /\ [][ServerNext]_vars

-----------------------------------------------------------------------------
(* src/src/client/hooks/useFormShield.ts                                   *)

\* the events of the form are enabled until the submission has been sent
Interactive == sender = "none" /\ mounted = "useFormShield"

\* time passes; a callback scheduled with setTimeout(..., 0) runs before it does
Tick ==
    /\ sender = "none"
    /\ pendingTimers = 0
    /\ clock < StartTime + MaxTicks * TickMs
    /\ clock' = clock + TickMs
    /\ NoVerdict /\ NoSubmit /\ NoError /\ NoSuccess
    /\ UNCHANGED <<serverVars, setupVars, hookVars, settings, honeypotFieldName, requiredDelay,
                   firstFocusTime, formFocusTracked, showChallengeDialog,
                   pendingTimers, challenge, challengeAnswer, formValues,
                   challengeMetrics, currentChallengeNumber, challengeStartTime,
                   onSuccessCalls, correctAnswers, clientPassed>>

handleFieldFocus ==
    /\ Interactive
    /\ IF ~formFocusTracked
       THEN /\ firstFocusTime' = clock
            /\ formFocusTracked' = TRUE
       ELSE UNCHANGED <<firstFocusTime, formFocusTracked>>
    /\ NoVerdict /\ NoSubmit /\ NoError /\ NoSuccess
    /\ UNCHANGED <<serverVars, setupVars, hookVars, clock, settings, honeypotFieldName, requiredDelay,
                   showChallengeDialog, pendingTimers, challenge, challengeAnswer,
                   formValues, challengeMetrics, currentChallengeNumber,
                   challengeStartTime, onSuccessCalls, correctAnswers,
                   clientPassed>>

\* values[honeypotName] is truthy
HoneypotFilled(values, honeypotName) ==
    /\ ~FalsyStr(honeypotName)
    /\ honeypotName \in DOMAIN values
    /\ ~FalsyStr(values[honeypotName])

ChallengesMessage(n) ==
    "Please complete " \o ToString(n) \o " verification challenge"
        \o (IF n > 1 THEN "s" ELSE "") \o "."

\* the AntiSpamCheckResult of checkAntiSpam(values); timeDeficitSeconds is
\* held in milliseconds as timeDeficitMs
checkAntiSpam(values) ==
    LET isBot == settings.ENABLE_HONEYPOT /\ HoneypotFilled(values, honeypotFieldName)
        tracked == settings.ENABLE_TIME_DELAY /\ ~FalsyNum(firstFocusTime)
        elapsedMs == clock - firstFocusTime
        tooFast == tracked /\ elapsedMs < requiredDelay * 1000
        timeDeficitMs == IF tooFast THEN requiredDelay * 1000 - elapsedMs ELSE 0
        requiredChallenges ==
            IF tooFast /\ settings.ENABLE_MULTIPLE_CHALLENGES
            THEN calculateRequiredChallenges(timeDeficitMs, settings)
            ELSE 0
        errorMessage ==
            IF tooFast
            THEN IF settings.ENABLE_MULTIPLE_CHALLENGES
                 THEN ChallengesMessage(requiredChallenges)
                 ELSE "Please review your information carefully. Form submitted too quickly."
            ELSE IF settings.ENABLE_TIME_DELAY /\ ~tracked
            THEN "Unable to verify form interaction. Please try again."
            ELSE NullStr
        timeDelayPassed ==
            ~(tooFast \/ (settings.ENABLE_TIME_DELAY /\ ~tracked))
    IN  [passed |-> (errorMessage = NullStr \/ errorMessage = ""),
         isBot |-> isBot,
         timeDelayPassed |-> timeDelayPassed,
         errorMessage |-> errorMessage,
         timeDeficitMs |-> timeDeficitMs,
         requiredChallenges |-> requiredChallenges]

\* checkAntiSpam calls setChallengeMetrics(prev => ({...prev, requiredChallenges}))
\* on a time failure in multi-challenge mode
UpdatesRequired(result) ==
    /\ settings.ENABLE_MULTIPLE_CHALLENGES
    /\ settings.ENABLE_TIME_DELAY
    /\ ~FalsyNum(firstFocusTime)
    /\ ~result.timeDelayPassed

\* a direct call of checkAntiSpam(values)
CheckAntiSpam ==
    /\ Interactive
    /\ \E values \in TestValues :
        LET result == checkAntiSpam(values)
        IN  /\ verdict' = result
            /\ clientPassed' = result.passed
            /\ challengeMetrics' =
                 IF UpdatesRequired(result)
                 THEN [challengeMetrics EXCEPT
                          !.requiredChallenges = result.requiredChallenges]
                 ELSE challengeMetrics
    /\ NoSubmit /\ NoError /\ NoSuccess
    /\ UNCHANGED <<serverVars, setupVars, hookVars, clock, settings, honeypotFieldName, requiredDelay,
                   firstFocusTime, formFocusTracked, showChallengeDialog,
                   pendingTimers, challenge, challengeAnswer, formValues,
                   currentChallengeNumber, challengeStartTime,
                   onSuccessCalls, correctAnswers>>

\* the stored values without the verdict's bot flag
StoredValues_untagged(values, result) == [fields |-> values, isBot |-> FALSE]

\* setFormValues({...values, isBot: result.isBot})
StoredValues(values, result) == [fields |-> values, isBot |-> result.isBot]

\* the test for showing the dialog that ignores the setting
ShowsChallenge_ignoringSetting(result) == ~result.passed

\* "Show challenge dialog if enabled and needed"
ShowsChallenge(result) == settings.ENABLE_CHALLENGE_DIALOG /\ ~result.passed

\* validateSubmission(values), called by the form itself or from the
\* handleSubmit of an adapter (viaAdapter), which goes on to call the wrapped
\* submit when the verdict has passed
validateSubmissionFrom(viaAdapter) ==
    /\ \E values \in TestValues, newChallenge \in generateChallenge :
        LET result == checkAntiSpam(values)
            opens == ShowsChallenge(result)
        IN  /\ opens => pendingTimers < MaxPendingTimers
            /\ verdict' = result
            /\ clientPassed' = result.passed
            /\ lastError' = IF result.errorMessage # NullStr /\ result.errorMessage # ""
                            THEN result.errorMessage ELSE NullStr
            /\ formValues' = StoredValues(values, result)
            /\ challengeMetrics' =
                 IF opens /\ settings.ENABLE_MULTIPLE_CHALLENGES
                 THEN [completedChallenges |-> 0, totalChallengeTime |-> 0,
                       requiredChallenges |-> result.requiredChallenges]
                 ELSE IF UpdatesRequired(result)
                 THEN [challengeMetrics EXCEPT
                          !.requiredChallenges = result.requiredChallenges]
                 ELSE challengeMetrics
            /\ challenge' = IF opens THEN newChallenge ELSE challenge
            /\ pendingTimers' = IF opens THEN pendingTimers + 1 ELSE pendingTimers
            /\ ~opens => newChallenge = challenge
            /\ submitted' = IF viaAdapter /\ result.passed
                            THEN [values |-> values] ELSE NullObj
    /\ NoSuccess
    /\ UNCHANGED <<serverVars, setupVars, hookVars, clock, settings, honeypotFieldName, requiredDelay,
                   firstFocusTime, formFocusTracked, showChallengeDialog,
                   challengeAnswer, currentChallengeNumber, challengeStartTime,
                   onSuccessCalls, correctAnswers>>

validateSubmission ==
    /\ Interactive
    /\ validateSubmissionFrom(FALSE)

-----------------------------------------------------------------------------
(* src/unnamed/part_003 (adapters/react-hook-form),                        *)
(* src/src/client/adapters/formik.ts                                       *)

\* the handleSubmit of withReactHookForm and of withFormik:
\*   const validationResult = formShield.validateSubmission(values);
\*   if (validationResult.passed) return onValid(values)   (formik.submitForm())
adapter_handleSubmit ==
    /\ Interactive
    /\ validateSubmissionFrom(TRUE)

-----------------------------------------------------------------------------
(* src/src/client/hooks/useFormShield.ts, continued                        *)

\* the callback scheduled by validateSubmission with setTimeout(..., 0), and
\* the effect on showChallengeDialog that starts the round timer
ShowDialogTimer ==
    /\ Interactive
    /\ pendingTimers > 0
    /\ pendingTimers' = pendingTimers - 1
    /\ showChallengeDialog' = TRUE
    /\ challengeStartTime' = IF ~showChallengeDialog THEN clock ELSE challengeStartTime
    /\ NoVerdict /\ NoSubmit /\ NoError /\ NoSuccess
    /\ UNCHANGED <<serverVars, setupVars, hookVars, clock, settings, honeypotFieldName, requiredDelay,
                   firstFocusTime, formFocusTracked, challenge, challengeAnswer,
                   formValues, challengeMetrics, currentChallengeNumber,
                   onSuccessCalls, correctAnswers, clientPassed>>

\* the Cancel button of the dialog: onOpenChange(false), and the effect on
\* showChallengeDialog that clears the typed answer
CloseDialog ==
    /\ Interactive
    /\ showChallengeDialog
    /\ showChallengeDialog' = FALSE
    /\ challengeAnswer' = <<>>
    /\ NoVerdict /\ NoSubmit /\ NoError /\ NoSuccess
    /\ UNCHANGED <<serverVars, setupVars, hookVars, clock, settings, honeypotFieldName, requiredDelay,
                   firstFocusTime, formFocusTracked, pendingTimers, challenge,
                   formValues, challengeMetrics, currentChallengeNumber,
                   challengeStartTime, onSuccessCalls, correctAnswers,
                   clientPassed>>

\* the input of the dialog: setChallengeAnswer(e.target.value)
TypeAnswer ==
    /\ Interactive
    /\ showChallengeDialog
    /\ \E a \in TypedAnswers : challengeAnswer' = a
    /\ NoVerdict /\ NoSubmit /\ NoError /\ NoSuccess
    /\ UNCHANGED <<serverVars, setupVars, hookVars, clock, settings, honeypotFieldName, requiredDelay,
                   firstFocusTime, formFocusTracked, showChallengeDialog,
                   pendingTimers, challenge, formValues, challengeMetrics,
                   currentChallengeNumber, challengeStartTime,
                   onSuccessCalls, correctAnswers, clientPassed>>

\* the comparison accepting any answer that is not blank
AnswerIsCorrect_anyNonBlank(answer, ch) == Trim(answer) # <<>>

\* challengeAnswer.trim().toLowerCase() === challenge.answer.toLowerCase()
AnswerIsCorrect(answer, ch) == ToLowerCase(Trim(answer)) = ToLowerCase(ch.answer)

ProgressMessage(c, r) ==
    "Challenge " \o ToString(c) \o " of " \o ToString(r)
        \o " completed. Please complete the next challenge."

\* the test for another round, comparing one count too many
MoreChallengesNeeded_offByOne(updatedMetrics) ==
    /\ settings.ENABLE_MULTIPLE_CHALLENGES
    /\ updatedMetrics.completedChallenges + 1 < updatedMetrics.requiredChallenges

\* "Check if we need more challenges"
MoreChallengesNeeded(updatedMetrics) ==
    /\ settings.ENABLE_MULTIPLE_CHALLENGES
    /\ updatedMetrics.completedChallenges < updatedMetrics.requiredChallenges

\* handleChallengeSubmit(onSuccess), run from the Verify button of the open
\* dialog (enabled when the typed answer is not blank)
handleChallengeSubmit_call ==
    /\ Interactive
    /\ Trim(challengeAnswer) # <<>>
    /\ correctAnswers < MaxCorrectAnswers
    /\ \E newChallenge \in generateChallenge :
        IF formValues = NullObj
        THEN /\ newChallenge = challenge
             /\ NoError /\ NoSuccess
             /\ UNCHANGED <<clock, settings, honeypotFieldName, requiredDelay,
                            firstFocusTime, formFocusTracked, showChallengeDialog,
                            pendingTimers, challenge, challengeAnswer, formValues,
                            challengeMetrics, currentChallengeNumber,
                            challengeStartTime, onSuccessCalls, correctAnswers,
                            clientPassed>>
        ELSE IF AnswerIsCorrect(challengeAnswer, challenge)
        THEN LET challengeTime ==
                     IF ~FalsyNum(challengeStartTime)
                     THEN clock - challengeStartTime ELSE 0
                 updatedMetrics ==
                     [completedChallenges |-> challengeMetrics.completedChallenges + 1,
                      totalChallengeTime |->
                          challengeMetrics.totalChallengeTime + challengeTime,
                      requiredChallenges |-> challengeMetrics.requiredChallenges]
             IN  /\ correctAnswers' = correctAnswers + 1
                 /\ IF MoreChallengesNeeded(updatedMetrics)
                    THEN /\ challengeMetrics' = updatedMetrics
                         /\ challenge' = newChallenge
                         /\ challengeAnswer' = <<>>
                         /\ currentChallengeNumber' = currentChallengeNumber + 1
                         /\ challengeStartTime' = clock
                         /\ lastError' =
                              ProgressMessage(updatedMetrics.completedChallenges,
                                              updatedMetrics.requiredChallenges)
                         /\ NoSuccess
                         /\ UNCHANGED <<showChallengeDialog, onSuccessCalls,
                                        clientPassed>>
                    ELSE LET finalMetrics ==
                                 IF updatedMetrics.completedChallenges = 0
                                 THEN [updatedMetrics EXCEPT !.completedChallenges = 1]
                                 ELSE updatedMetrics
                         IN  /\ newChallenge = challenge
                             /\ challengeMetrics' = finalMetrics
                             /\ showChallengeDialog' = FALSE
                             /\ challengeAnswer' = <<>>
                             /\ currentChallengeNumber' = 1
                             /\ onSuccessCalls' = onSuccessCalls + 1
                             /\ successArgs' =
                                  [values |-> formValues,
                                   challengeCompleted |-> TRUE,
                                   challengeMetrics |-> finalMetrics]
                             /\ clientPassed' = TRUE
                             /\ NoError
                             /\ UNCHANGED <<challenge, challengeStartTime>>
                 /\ UNCHANGED <<clock, settings, honeypotFieldName, requiredDelay,
                                firstFocusTime, formFocusTracked, pendingTimers,
                                formValues>>
        ELSE /\ lastError' = "Incorrect answer. Please try again."
             /\ challenge' = newChallenge
             /\ challengeAnswer' = <<>>
             /\ NoSuccess
             /\ UNCHANGED <<clock, settings, honeypotFieldName, requiredDelay,
                            firstFocusTime, formFocusTracked, showChallengeDialog,
                            pendingTimers, formValues, challengeMetrics,
                            currentChallengeNumber, challengeStartTime,
                            onSuccessCalls, correctAnswers, clientPassed>>
    /\ NoVerdict /\ NoSubmit
    /\ UNCHANGED <<serverVars, setupVars, hookVars>>

\* handleChallengeSubmit(onSuccess) called by the Verify button of the open
\* dialog
handleChallengeSubmit ==
    /\ showChallengeDialog
    /\ handleChallengeSubmit_call

\* the setChallengeAnswer the hook returns, called while no dialog is shown
setChallengeAnswer_whileClosed ==
    /\ Interactive
    /\ ~showChallengeDialog
    /\ \E a \in TypedAnswers : challengeAnswer' = a
    /\ NoVerdict /\ NoSubmit /\ NoError /\ NoSuccess
    /\ UNCHANGED <<serverVars, setupVars, hookVars, clock, settings,
                   honeypotFieldName, requiredDelay, firstFocusTime,
                   formFocusTracked, showChallengeDialog, pendingTimers,
                   challenge, formValues, challengeMetrics,
                   currentChallengeNumber, challengeStartTime, onSuccessCalls,
                   correctAnswers, clientPassed>>

\* the handleChallengeSubmit(onSuccess) the hook returns, called while no
\* dialog is shown
handleChallengeSubmit_whileClosed ==
    /\ ~showChallengeDialog
    /\ handleChallengeSubmit_call

\* getFormShieldData reporting a challenge as completed once the completed
\* count has reached the required count
getFormShieldData_reachedRequired ==
    [firstFocusTime |-> firstFocusTime,
     submissionTime |-> clock,
     challengeCompleted |->
         challengeMetrics.completedChallenges >= challengeMetrics.requiredChallenges,
     challengeMetrics |-> challengeMetrics,
     antiSpamSettings |-> settings]

\* the object returned by getFormShieldData()
getFormShieldData ==
    [firstFocusTime |-> firstFocusTime,
     submissionTime |-> clock,
     challengeCompleted |-> challengeMetrics.completedChallenges > 0,
     challengeMetrics |-> challengeMetrics,
     antiSpamSettings |-> settings]

\* the documented submission (README.md, Quick Start): once the client
\* decision has passed, POST { ...values, ...getFormShieldData() }
ClientSubmit ==
    /\ Interactive
    /\ clientPassed
    /\ formValues # NullObj
    /\ req' = [method |-> "POST",
               body |-> [firstFocusTime |-> getFormShieldData.firstFocusTime,
                         submissionTime |-> getFormShieldData.submissionTime,
                         challengeCompleted |-> getFormShieldData.challengeCompleted,
                         challengeMetrics |-> getFormShieldData.challengeMetrics,
                         antiSpamSettings |-> getFormShieldData.antiSpamSettings,
                         fields |-> formValues.fields]]
    /\ sender' = "client"
    /\ UNCHANGED <<options, ret, res, nextCalls, called, clientVars, hookVars, setupVars>>

\* a request written by hand, by someone who never loaded the form
ForgedBodies ==
    [firstFocusTime : {NullNum, StartTime},
     submissionTime : {StartTime},
     challengeCompleted : {TRUE},
     challengeMetrics : {[completedChallenges |-> 1, totalChallengeTime |-> 0,
                          requiredChallenges |-> r] : r \in {0, 1}},
     antiSpamSettings : {NullObj},
     fields : {[k \in {K_name} |-> V_text]}]

UntouchedForm ==
    /\ firstFocusTime = NullNum
    /\ formValues = NullObj
    /\ clock = StartTime

Forge ==
    /\ Interactive
    /\ UntouchedForm
    /\ \E body \in ForgedBodies : req' = [method |-> "POST", body |-> body]
    /\ sender' = "forger"
    /\ UNCHANGED <<options, ret, res, nextCalls, called, clientVars, hookVars, setupVars>>

-----------------------------------------------------------------------------
(* src/unnamed/part_007 (client/hooks/useTimeDelay)                        *)

\* the variables of a useFormShield instance that no other hook touches
formVars ==
    <<settings, honeypotFieldName, requiredDelay, firstFocusTime,
      formFocusTracked, showChallengeDialog, pendingTimers, challenge,
      challengeAnswer, formValues, challengeMetrics, currentChallengeNumber,
      challengeStartTime, clientPassed>>

\* useTimeDelay's handleFieldFocus overwriting the timestamp on every focus
useTimeDelay_handleFieldFocus_always ==
    /\ sender = "none" /\ mounted = "useTimeDelay"
    /\ timeDelay' = [timeDelay EXCEPT !.firstFocusTime = clock,
                                      !.formFocusTracked = TRUE]
    /\ NoVerdict /\ NoSubmit /\ NoError /\ NoSuccess
    /\ UNCHANGED <<serverVars, setupVars, formVars, clock, onSuccessCalls, correctAnswers,
                   mounted, challengeHook>>

useTimeDelay_handleFieldFocus ==
    /\ sender = "none" /\ mounted = "useTimeDelay"
    /\ timeDelay' = IF ~timeDelay.formFocusTracked
                    THEN [timeDelay EXCEPT !.firstFocusTime = clock,
                                           !.formFocusTracked = TRUE]
                    ELSE timeDelay
    /\ NoVerdict /\ NoSubmit /\ NoError /\ NoSuccess
    /\ UNCHANGED <<serverVars, setupVars, formVars, clock, onSuccessCalls, correctAnswers,
                   mounted, challengeHook>>

\* checkTimeDelay passing one second early
checkTimeDelay_early(td) ==
    IF "enabled" \in DOMAIN td.options /\ td.options.enabled = FALSE
    THEN [passed |-> TRUE, timeDeficitMs |-> 0]
    ELSE IF FalsyNum(td.firstFocusTime)
    THEN [passed |-> FALSE, timeDeficitMs |-> td.requiredDelay * 1000]
    ELSE LET elapsedMs == clock - td.firstFocusTime
         IN  [passed |-> elapsedMs + 1000 >= td.requiredDelay * 1000,
              timeDeficitMs |->
                  IF td.requiredDelay * 1000 - elapsedMs > 0
                  THEN td.requiredDelay * 1000 - elapsedMs ELSE 0]

\* the object returned by checkTimeDelay(); timeDeficitSeconds is held in
\* milliseconds as timeDeficitMs
checkTimeDelay(td) ==
    IF "enabled" \in DOMAIN td.options /\ td.options.enabled = FALSE
    THEN [passed |-> TRUE, timeDeficitMs |-> 0]
    ELSE IF FalsyNum(td.firstFocusTime)
    THEN [passed |-> FALSE, timeDeficitMs |-> td.requiredDelay * 1000]
    ELSE LET elapsedMs == clock - td.firstFocusTime
         IN  [passed |-> elapsedMs >= td.requiredDelay * 1000,
              timeDeficitMs |->
                  IF td.requiredDelay * 1000 - elapsedMs > 0
                  THEN td.requiredDelay * 1000 - elapsedMs ELSE 0]

\* a call of checkTimeDelay()
useTimeDelay_checkTimeDelay ==
    /\ sender = "none" /\ mounted = "useTimeDelay"
    /\ verdict' = checkTimeDelay(timeDelay)
    /\ NoSubmit /\ NoError /\ NoSuccess
    /\ UNCHANGED <<serverVars, setupVars, formVars, clock, onSuccessCalls, correctAnswers,
                   hookVars>>

-----------------------------------------------------------------------------
(* src/unnamed/part_009 (client/hooks/useChallenge)                        *)

\* the variables a useChallenge handler leaves alone
outsideChallengeHook ==
    <<serverVars, setupVars, formVars, clock, mounted, timeDelay>>

\* setShowChallengeDialog(open), and the effect on showChallengeDialog
useChallenge_setShowChallengeDialog ==
    /\ sender = "none" /\ mounted = "useChallenge"
    /\ \E open \in BOOLEAN :
        challengeHook' =
            IF open = challengeHook.showChallengeDialog THEN challengeHook
            ELSE IF open
            THEN [challengeHook EXCEPT !.showChallengeDialog = TRUE,
                                       !.challengeStartTime = clock]
            ELSE [challengeHook EXCEPT !.showChallengeDialog = FALSE,
                                       !.challengeAnswer = <<>>]
    /\ NoVerdict /\ NoSubmit /\ NoError /\ NoSuccess
    /\ UNCHANGED <<outsideChallengeHook, onSuccessCalls, correctAnswers>>

\* setChallengeAnswer(a)
useChallenge_setChallengeAnswer ==
    /\ sender = "none" /\ mounted = "useChallenge"
    /\ \E a \in TypedAnswers :
        challengeHook' = [challengeHook EXCEPT !.challengeAnswer = a]
    /\ NoVerdict /\ NoSubmit /\ NoError /\ NoSuccess
    /\ UNCHANGED <<outsideChallengeHook, onSuccessCalls, correctAnswers>>

\* the requiredChallenges a caller sets: none, or two as the hook's tests do
TestRequired == {0, 2}

\* setChallengeMetrics({completedChallenges: 0, totalChallengeTime: 0,
\* requiredChallenges: r}), as the caller does before it opens the dialog
useChallenge_setChallengeMetrics ==
    /\ sender = "none" /\ mounted = "useChallenge"
    /\ \E r \in TestRequired :
        challengeHook' =
            [challengeHook EXCEPT
                !.challengeMetrics = [ZeroMetrics EXCEPT !.requiredChallenges = r]]
    /\ NoVerdict /\ NoSubmit /\ NoError /\ NoSuccess
    /\ UNCHANGED <<outsideChallengeHook, onSuccessCalls, correctAnswers>>

\* the settings calculateRequiredChallengesFunc hands to calculateRequiredChallenges
useChallenge_settings(opts) ==
    [ENABLE_MULTIPLE_CHALLENGES |->
         "enableMultipleChallenges" \in DOMAIN opts /\ opts.enableMultipleChallenges,
     MAX_CHALLENGES |->
         IF "maxChallenges" \in DOMAIN opts /\ opts.maxChallenges # 0
         THEN opts.maxChallenges ELSE 3,
     CHALLENGE_TIME_VALUE |->
         IF "challengeTimeValue" \in DOMAIN opts /\ opts.challengeTimeValue # 0
         THEN opts.challengeTimeValue ELSE 5,
     ENABLE_TIME_DELAY |-> TRUE,
     ENABLE_CHALLENGE_DIALOG |-> TRUE,
     ENABLE_HONEYPOT |-> TRUE]

\* the time deficits, in milliseconds, the function is called with
TestDeficits ==
    {-5000, 0, 1, 7000, 20000}

\* a call of the hook's calculateRequiredChallenges(timeDeficitSeconds)
useChallenge_calculateRequiredChallenges ==
    /\ sender = "none" /\ mounted = "useChallenge"
    /\ \E d \in TestDeficits :
        verdict' =
            [timeDeficitMs |-> d,
             requiredChallenges |->
                 calculateRequiredChallenges(d, useChallenge_settings(challengeHook.options))]
    /\ NoSubmit /\ NoError /\ NoSuccess
    /\ UNCHANGED <<outsideChallengeHook, challengeHook, onSuccessCalls,
                   correctAnswers>>

\* useChallenge's test for another round, without the check of the mode
useChallenge_moreNeeded_anyMode(opts, updatedMetrics) ==
    updatedMetrics.completedChallenges < updatedMetrics.requiredChallenges

\* "Check if we need more challenges"
useChallenge_moreNeeded(opts, updatedMetrics) ==
    /\ "enableMultipleChallenges" \in DOMAIN opts
    /\ opts.enableMultipleChallenges
    /\ updatedMetrics.completedChallenges < updatedMetrics.requiredChallenges

\* what useChallenge's handleChallengeSubmit(onSuccess) does to the hook h at
\* time now: the hook state it sets, the message it reports (NullStr: none)
\* and the arguments it calls onSuccess with (NullObj: no call)
useChallenge_submit(h, now, newChallenge) ==
    IF AnswerIsCorrect(h.challengeAnswer, h.challenge)
    THEN LET challengeTime ==
                 IF ~FalsyNum(h.challengeStartTime)
                 THEN now - h.challengeStartTime ELSE 0
             updatedMetrics ==
                 [completedChallenges |-> h.challengeMetrics.completedChallenges + 1,
                  totalChallengeTime |->
                      h.challengeMetrics.totalChallengeTime + challengeTime,
                  requiredChallenges |-> h.challengeMetrics.requiredChallenges]
         IN  IF useChallenge_moreNeeded(h.options, updatedMetrics)
             THEN [hook |-> [h EXCEPT
                               !.challengeMetrics = updatedMetrics,
                               !.challenge = newChallenge,
                               !.challengeAnswer = <<>>,
                               !.currentChallengeNumber = @ + 1,
                               !.challengeStartTime = now],
                   error |-> ProgressMessage(updatedMetrics.completedChallenges,
                                             updatedMetrics.requiredChallenges),
                   success |-> NullObj]
             ELSE LET finalMetrics ==
                          IF updatedMetrics.completedChallenges = 0
                          THEN [updatedMetrics EXCEPT !.completedChallenges = 1]
                          ELSE updatedMetrics
                  IN  [hook |-> [h EXCEPT
                                   !.challengeMetrics = finalMetrics,
                                   !.showChallengeDialog = FALSE,
                                   !.challengeAnswer = <<>>,
                                   !.currentChallengeNumber = 1],
                       error |-> NullStr,
                       success |-> [challengeCompleted |-> TRUE,
                                    challengeMetrics |-> finalMetrics]]
    ELSE [hook |-> [h EXCEPT !.challenge = newChallenge,
                             !.challengeAnswer = <<>>],
          error |-> "Incorrect answer. Please try again.",
          success |-> NullObj]

\* useChallenge's handleChallengeSubmit(onSuccess)
useChallenge_handleChallengeSubmit ==
    /\ sender = "none" /\ mounted = "useChallenge"
    /\ correctAnswers < MaxCorrectAnswers
    /\ \E newChallenge \in generateNewChallenge :
        LET did == useChallenge_submit(challengeHook, clock, newChallenge)
        IN  /\ challengeHook' = did.hook
            /\ lastError' = did.error
            /\ successArgs' = did.success
            /\ onSuccessCalls' =
                 onSuccessCalls + (IF did.success # NullObj THEN 1 ELSE 0)
            /\ correctAnswers' =
                 correctAnswers
                   + (IF AnswerIsCorrect(challengeHook.challengeAnswer,
                                         challengeHook.challenge)
                      THEN 1 ELSE 0)
    /\ NoVerdict /\ NoSubmit
    /\ UNCHANGED outsideChallengeHook

\* resetChallenge()
useChallenge_resetChallenge ==
    /\ sender = "none" /\ mounted = "useChallenge"
    /\ \E newChallenge \in generateNewChallenge :
        challengeHook' =
            [challengeHook EXCEPT !.showChallengeDialog = FALSE,
                                  !.challengeAnswer = <<>>,
                                  !.currentChallengeNumber = 1,
                                  !.challengeMetrics = ZeroMetrics,
                                  !.challenge = newChallenge]
    /\ NoVerdict /\ NoSubmit /\ NoError /\ NoSuccess
    /\ UNCHANGED <<outsideChallengeHook, onSuccessCalls, correctAnswers>>

ClientNext ==
    \/ Tick
    \/ handleFieldFocus
    \/ CheckAntiSpam
    \/ validateSubmission
    \/ ShowDialogTimer
    \/ CloseDialog
    \/ TypeAnswer
    \/ handleChallengeSubmit
    \/ ClientSubmit
    \/ Forge
    \/ CallValidateFormShield
    \/ useTimeDelay_handleFieldFocus
    \/ useTimeDelay_checkTimeDelay
    \/ useChallenge_setShowChallengeDialog
    \/ useChallenge_setChallengeAnswer
    \/ useChallenge_setChallengeMetrics
    \/ useChallenge_calculateRequiredChallenges
    \/ useChallenge_handleChallengeSubmit
    \/ useChallenge_resetChallenge

SpecClient == ClientInit /\ [][ClientNext]_vars

-----------------------------------------------------------------------------
(* Setting a form up: the registry of challenge types, the provider, and   *)
(* the options useFormShield is called with                                *)

\* the settings prop of the provider (null: no provider, or no such prop);
\* the second is that of the provider test "hook options override context"
TestProviderSettings ==
    { NullObj,
      [ENABLE_HONEYPOT |-> TRUE, ENABLE_TIME_DELAY |-> TRUE,
       ENABLE_CHALLENGE_DIALOG |-> FALSE],
      [ENABLE_MULTIPLE_CHALLENGES |-> FALSE, MAX_CHALLENGES |-> 5] }

\* the options of useFormShield drawn when a form is set up
SetupFormShieldOptions ==
    { [k \in {} |-> 0],
      [settings |-> [ENABLE_HONEYPOT |-> FALSE, ENABLE_TIME_DELAY |-> FALSE]],
      [settings |-> [ENABLE_CHALLENGE_DIALOG |-> TRUE, MAX_CHALLENGES |-> 2]],
      [settings |-> [ENABLE_TIME_DELAY |-> FALSE]],
      [preferredChallengeType |-> T_text],
      [preferredChallengeType |-> T_image_captcha],
      [challengeTypes |-> <<T_math>>],
      [challengeTypes |-> <<T_math, T_text, T_image_captcha>>] }

\* the module of the registry has been loaded and nothing is registered
\* (private types = {}); no hook is mounted yet
SetupInit ==
    /\ ClientMounted
    /\ mounted = "none"
    /\ timeDelay = NullObj
    /\ challengeHook = NullObj
    /\ settings = ANTI_SPAM_FEATURES
    /\ honeypotFieldName = K_contact_input
    /\ requiredDelay = MIN_SUBMISSION_TIME
    /\ challenge = [answer |-> A_blue]
    /\ registry = {}
    /\ generated = NullObj
    /\ providerSettings \in TestProviderSettings
    /\ formShieldOptions = NullObj
    /\ req = NoRequest
    /\ options = [k \in {} |-> 0]
    /\ ret = NullObj
    /\ res = NoResponse
    /\ nextCalls = 0
    /\ called = "none"
    /\ sender = "none"

\* challengeRegistry.register(type, definition)
register ==
    /\ mounted = "none"
    /\ \E type \in TestTypes : registry' = registry \cup {type}
    /\ generated' = NullObj
    /\ UNCHANGED <<serverVars, clientVars, hookVars, providerSettings,
                   formShieldOptions>>

\* a call of challengeRegistry.generateChallenge(type): generated holds the
\* argument and what the call returned or threw
CallGenerateChallenge ==
    /\ mounted = "none"
    /\ \E type \in TestTypes \cup {NullStr, ""} :
        \E outcome \in challengeRegistry_generateChallenge(registry, type) :
            generated' = [type |-> type, outcome |-> outcome]
    /\ UNCHANGED <<serverVars, clientVars, hookVars, registry, providerSettings,
                   formShieldOptions>>

\* a component below the provider calls useFormShield(options) for the
\* first time; the hooks module has loaded the built-in challenge types
MountFormShield ==
    /\ mounted = "none"
    /\ BuiltInTypes \subseteq registry
    /\ mounted' = "useFormShield"
    /\ \E opts \in SetupFormShieldOptions :
        /\ formShieldOptions' = opts
        /\ settings' = useFormShield_settings(FormShieldProvider(providerSettings),
                                              opts)
    /\ requiredDelay' \in getRandomDelay
    /\ challenge' \in generateChallenge
    /\ generated' = NullObj
    /\ UNCHANGED <<serverVars, clock, honeypotFieldName, firstFocusTime,
                   formFocusTracked, showChallengeDialog, pendingTimers,
                   challengeAnswer, formValues, challengeMetrics,
                   currentChallengeNumber, challengeStartTime, verdict, lastError,
                   successArgs, onSuccessCalls, correctAnswers, clientPassed,
                   submitted, timeDelay, challengeHook, registry,
                   providerSettings>>

SetupNext ==
    \/ register
    \/ CallGenerateChallenge
    \/ MountFormShield
    \/ handleFieldFocus
    \/ validateSubmission
    \/ adapter_handleSubmit
    \/ ShowDialogTimer
    \/ CloseDialog
    \/ TypeAnswer
    \/ handleChallengeSubmit

\* a mounted form whose component also calls the functions the hook returns
\* while no dialog is shown
CallsInit ==
    /\ ClientInit
    /\ mounted = "useFormShield"

CallsNext ==
    \/ handleFieldFocus
    \/ validateSubmission
    \/ ShowDialogTimer
    \/ CloseDialog
    \/ TypeAnswer
    \/ handleChallengeSubmit
    \/ setChallengeAnswer_whileClosed
    \/ handleChallengeSubmit_whileClosed

SpecCalls == CallsInit /\ [][CallsNext]_vars

SpecSetup == SetupInit /\ [][SetupNext]_vars

-----------------------------------------------------------------------------
(* Claims about the request boundary and the validators (SpecServer)       *)

ByMiddleware == called \in {"formShieldMiddleware", "withFormShield"}

\* C1: the continuation is invoked exactly once for a non-POST request (no
\* validation run, no response written), exactly once for a POST whose body
\* validateFormShield finds valid, and never for a POST it finds invalid.
C1_ContinuationOnce ==
    ByMiddleware =>
        IF req.method # "POST"
        THEN nextCalls = 1 /\ ret = NullObj /\ res = NoResponse
        ELSE IF validateFormShield(req.body, options).valid
        THEN nextCalls = 1
        ELSE nextCalls = 0

C1_Witness ==
    /\ called = "formShieldMiddleware"
    /\ req.method = "GET"
    /\ ~validateFormShield(req.body, options).valid
    /\ nextCalls = 1

\* C2: with honeypotCheck enabled, every body on which validateHoneypot is
\* triggered gets exactly {valid:false, "Honeypot field detected", isBot:true}
\* from validateFormShield, whatever its time and challenge fields hold.
C2_HoneypotFirst ==
    ( /\ called = "validateFormShield"
      /\ mergedOptions(options).honeypotCheck
      /\ ~validateHoneypot(req.body).valid )
    => ret = [valid |-> FALSE, error |-> "Honeypot field detected", isBot |-> TRUE]

C2_Witness ==
    /\ called = "validateFormShield"
    /\ mergedOptions(options).honeypotCheck
    /\ mergedOptions(options).timeDelayCheck
    /\ ~validateHoneypot(req.body).valid
    /\ req.body.firstFocusTime = NullNum
    /\ ~req.body.challengeCompleted
    /\ ret.isBot

TimeDelayOf(body, opts) ==
    validateTimeDelay(body, mergedOptions(opts).minSubmissionTime,
                      mergedOptions(opts).challengeTimeValue)

HoneypotPassed(body, opts) ==
    ~mergedOptions(opts).honeypotCheck \/ validateHoneypot(body).valid

\* C5: in validateFormShield with timeDelayCheck enabled, a failing
\* validateTimeDelay result (the function is called only once the honeypot
\* step has not returned) is the verdict unless challengeCheck is enabled and
\* challengeCompleted is true; in that case, and only then, the time failure
\* is waived and the verdict is the one validateChallenge gives.
C5_Waiver ==
    ( /\ called = "validateFormShield"
      /\ HoneypotPassed(req.body, options)
      /\ mergedOptions(options).timeDelayCheck
      /\ ~TimeDelayOf(req.body, options).valid )
    => IF mergedOptions(options).challengeCheck /\ req.body.challengeCompleted
       THEN ret = validateChallenge(req.body)
       ELSE ret = TimeDelayOf(req.body, options)

C5_Witness ==
    /\ called = "validateFormShield"
    /\ HoneypotPassed(req.body, options)
    /\ mergedOptions(options).timeDelayCheck
    /\ mergedOptions(options).challengeCheck
    /\ ~TimeDelayOf(req.body, options).valid
    /\ req.body.challengeCompleted
    /\ ret.valid

\* C6: a POST whose verdict is invalid with isBot = true is answered by both
\* middlewares with 200 {success:true, message:"Form submitted
\* successfully!"}, and the protected action is not executed.
C6_BotSilentAccept ==
    ( /\ ByMiddleware
      /\ req.method = "POST"
      /\ ~validateFormShield(req.body, options).valid
      /\ validateFormShield(req.body, options).isBot )
    => /\ res = [status |-> 200,
                 json |-> [success |-> TRUE,
                           message |-> "Form submitted successfully!"]]
       /\ nextCalls = 0

C6_Witness ==
    /\ called = "withFormShield"
    /\ req.method = "POST"
    /\ validateFormShield(req.body, options).isBot
    /\ res.status = 200
    /\ nextCalls = 0

\* C7: a POST whose verdict is invalid with isBot = false is answered by both
\* middlewares with 400 {success:false, error:E}, E the verdict's message or
\* "Invalid form submission" when it has none, and the protected action is
\* not executed.
C7_ErrorResponse ==
    ( /\ ByMiddleware
      /\ req.method = "POST"
      /\ ~validateFormShield(req.body, options).valid
      /\ ~validateFormShield(req.body, options).isBot )
    => LET e == validateFormShield(req.body, options).error
       IN  /\ res.status = 400
           /\ res.json = [success |-> FALSE,
                          error |-> IF e = NullStr \/ e = ""
                                    THEN "Invalid form submission" ELSE e]
           /\ nextCalls = 0

C7_Witness ==
    /\ called = "withFormShield"
    /\ req.method = "POST"
    /\ res.status = 400
    /\ res.json.error = "Form submitted too quickly. Please try again."
    /\ nextCalls = 0

\* C9: validateTimeDelay is valid iff firstFocusTime is present and
\* (submissionTime - firstFocusTime)/1000 + completedChallenges *
\* challengeTimeValue >= minSubmissionTime (completedChallenges 0 without
\* metrics); it fails with "Unable to verify form interaction. Please try
\* again." without firstFocusTime and with "Form submitted too quickly.
\* Please try again." under the minimum, always with isBot = false.
C9_TimeDelay ==
    called = "validateTimeDelay" =>
        LET b == req.body
            min == mergedOptions(options).minSubmissionTime
            ctv == mergedOptions(options).challengeTimeValue
            c == IF b.challengeMetrics = NullObj THEN 0
                 ELSE b.challengeMetrics.completedChallenges
            present == b.firstFocusTime # NullNum
            enough == (b.submissionTime - b.firstFocusTime) + c * ctv * 1000
                          >= min * 1000
        IN  /\ ret.valid <=> (present /\ enough)
            /\ ret.isBot = FALSE
            /\ ret.valid => ret.error = NullStr
            /\ ~present =>
                 ret.error = "Unable to verify form interaction. Please try again."
            /\ (present /\ ~enough) =>
                 ret.error = "Form submitted too quickly. Please try again."

\* a body that passes only thanks to the credit of its completed challenges
C9_Witness ==
    /\ called = "validateTimeDelay"
    /\ req.body.firstFocusTime # NullNum
    /\ req.body.submissionTime - req.body.firstFocusTime
           < mergedOptions(options).minSubmissionTime * 1000
    /\ req.body.challengeMetrics # NullObj
    /\ ret.valid

\* C10: validateChallenge fails, in this order of precedence, if
\* challengeCompleted is falsy, if challengeMetrics is absent, if
\* completedChallenges < 1, or if requiredChallenges > 0 and
\* completedChallenges < requiredChallenges, each with its own message, the
\* last "Please complete all required challenges (c/r completed)."; it is
\* valid in every other case.
C10_Challenge ==
    called = "validateChallenge" =>
        LET b == req.body
            m == b.challengeMetrics
            case ==
                IF ~b.challengeCompleted THEN 1
                ELSE IF m = NullObj THEN 2
                ELSE IF m.completedChallenges < 1 THEN 3
                ELSE IF m.requiredChallenges > 0
                        /\ m.completedChallenges < m.requiredChallenges THEN 4
                ELSE 0
        IN  /\ ret.valid <=> case = 0
            /\ ret.isBot = FALSE
            /\ case = 0 => ret.error = NullStr
            /\ case = 1 => ret.error =
                   "Human verification required. Please complete the challenge."
            /\ case = 2 => ret.error =
                   "Invalid challenge metrics. Please try again."
            /\ case = 3 => ret.error =
                   "Challenge not completed. Please try again."
            /\ case = 4 => ret.error =
                   "Please complete all required challenges ("
                       \o ToString(m.completedChallenges) \o "/"
                       \o ToString(m.requiredChallenges) \o " completed)."
            /\ (case = 4 /\ m.completedChallenges = 1 /\ m.requiredChallenges = 2)
                   => ret.error =
                        "Please complete all required challenges (1/2 completed)."

C10_Witness ==
    /\ called = "validateChallenge"
    /\ req.body.challengeCompleted
    /\ req.body.challengeMetrics # NullObj
    /\ req.body.challengeMetrics.completedChallenges = 1
    /\ req.body.challengeMetrics.requiredChallenges = 2
    /\ ret.error = "Please complete all required challenges (1/2 completed)."

\* the other keys of the body that hold a non-empty value
FilledKeys(body) == {key \in DOMAIN body.fields : body.fields[key] # <<>>}

\* sub occurs in s at position i
OccursAt(s, sub, i) ==
    /\ i >= 1
    /\ i + Len(sub) - 1 <= Len(s)
    /\ \A j \in 1..Len(sub) : s[i + j - 1] = sub[j]

Triggered == [valid |-> FALSE, error |-> "Honeypot field detected", isBot |-> TRUE]

\* C11 as stated: validateHoneypot reports a triggered honeypot iff the body
\* has a key outside the five known fields with a non-empty value whose name
\* ends in "_input", "_field", "_data", "_value" or "_entry"; every other
\* body is valid.
C11_HoneypotSuffix ==
    called = "validateHoneypot" =>
        LET hit == \E key \in FilledKeys(req.body) \ KnownFields :
                       \E p \in HoneypotPatterns :
                           OccursAt(key, p, Len(key) - Len(p) + 1)
        IN  IF hit THEN ~ret.valid /\ ret.isBot ELSE ret.valid

\* C11 amended: validateHoneypot reports a triggered honeypot iff the body
\* has a key outside the five known fields with a non-empty value whose name
\* contains "_input", "_field", "_data", "_value" or "_entry" anywhere; every
\* other body is valid.
C11_HoneypotContains ==
    called = "validateHoneypot" =>
        LET hit == \E key \in FilledKeys(req.body) \ KnownFields :
                       \E p \in HoneypotPatterns :
                           \E i \in 1..Len(key) : OccursAt(key, p, i)
        IN  IF hit THEN ret = Triggered
            ELSE ret = [valid |-> TRUE, error |-> NullStr, isBot |-> FALSE]

\* a filled key that holds a pattern in the middle of its name
C11_Witness ==
    /\ called = "validateHoneypot"
    /\ K_user_data_id \in FilledKeys(req.body)
    /\ K_contact_input \notin DOMAIN req.body.fields
    /\ ret = Triggered

\* the body of the claim: 5 s between first focus and submission, the
\* challenge reported completed with at least one completed challenge
FiveSecondsChallenged(body) ==
    /\ body.firstFocusTime # NullNum
    /\ body.submissionTime - body.firstFocusTime = 5000
    /\ body.challengeCompleted
    /\ body.challengeMetrics # NullObj
    /\ body.challengeMetrics.completedChallenges >= 1

DefaultOptions == mergedOptions(options) = DEFAULT_OPTIONS

C30_VerdictShape ==
    (called \in {"validateFormShield", "formShieldMiddleware", "withFormShield"}
        /\ ret # NullObj) =>
        /\ (ret.error = NullStr) <=> ret.valid
        /\ ret.valid => ~ret.isBot
        /\ ret.isBot =>
              /\ mergedOptions(options).honeypotCheck
              /\ honeypotFields(req.body) # {}
              /\ ret.error = "Honeypot field detected"
        /\ (~ret.valid /\ ret.error # "Honeypot field detected") => ~ret.isBot

\* a time-delay failure, which is not flagged as a bot
C30_Witness ==
    /\ called = "validateFormShield"
    /\ ret = Result(FALSE, "Form submitted too quickly. Please try again.", FALSE)
    /\ honeypotFields(req.body) = {}

-----------------------------------------------------------------------------
(* Claims about the client and about client and server together            *)
(* (SpecClient; the server runs validateFormShield with default options)   *)

ServerAnswered == called = "validateFormShield" /\ sender \in {"client", "forger"}

\* the timestamps of the body show at least min seconds between first focus
\* and submission
TimestampsShow(body, min) ==
    /\ body.firstFocusTime # NullNum
    /\ body.submissionTime - body.firstFocusTime >= min * 1000

\* C3: under default options the server accepts a body only if its
\* timestamps show at least minSubmissionTime seconds between first focus
\* and submission or a challenge sequence was really completed on the
\* client; a body forged with challengeCompleted / challengeMetrics alone is
\* not accepted.
C3_ServerNeverTrusts ==
    (ServerAnswered /\ ret.valid)
    => \/ TimestampsShow(req.body, DEFAULT_OPTIONS.minSubmissionTime)
       \/ onSuccessCalls > 0

\* C4: every payload built by getFormShieldData after the client decision
\* passed, with client settings and server options at their defaults, is
\* found valid by validateFormShield.
C4_ClientServerAgree ==
    ( /\ ServerAnswered
      /\ sender = "client"
      /\ settings = ANTI_SPAM_FEATURES )
    => ret.valid

Max(a, b) == IF a >= b THEN a ELSE b

\* the challenge state of the mounted hook (useFormShield or useChallenge)
HookMetrics ==
    IF mounted = "useChallenge" THEN challengeHook.challengeMetrics
    ELSE challengeMetrics

HookDialogOpen ==
    IF mounted = "useChallenge" THEN challengeHook.showChallengeDialog
    ELSE showChallengeDialog

HookRound ==
    IF mounted = "useChallenge" THEN challengeHook.currentChallengeNumber
    ELSE currentChallengeNumber

HookTypedAnswer ==
    IF mounted = "useChallenge" THEN challengeHook.challengeAnswer
    ELSE challengeAnswer

HookChallenge ==
    IF mounted = "useChallenge" THEN challengeHook.challenge ELSE challenge

MultiMode ==
    IF mounted = "useChallenge"
    THEN /\ "enableMultipleChallenges" \in DOMAIN challengeHook.options
         /\ challengeHook.options.enableMultipleChallenges
    ELSE settings.ENABLE_MULTIPLE_CHALLENGES

\* C8: onSuccess is never invoked before completedChallenges >=
\* max(1, requiredChallenges) in multi-challenge mode, nor before at least one
\* correct answer has been given in single-challenge mode.
C8_NoEarlySuccess ==
    /\ onSuccessCalls > 0 => correctAnswers >= 1
    /\ successArgs # NullObj =>
         /\ successArgs.challengeMetrics = HookMetrics
         /\ MultiMode =>
               HookMetrics.completedChallenges
                   >= Max(1, HookMetrics.requiredChallenges)
         /\ ~MultiMode =>
               HookMetrics.completedChallenges >= 1

\* C13: every verdict of useFormShield.checkAntiSpam has passed =
\* (timeDelayPassed AND NOT isBot): a filled honeypot gives a failed verdict
\* even when the time gate passed.
C13_PassedFormula ==
    (mounted = "useFormShield" /\ verdict # NullObj)
    => (verdict.passed <=> (verdict.timeDelayPassed /\ ~verdict.isBot))

\* C14: recording the first interaction is idempotent, in useFormShield and
\* in useTimeDelay: the first handleFieldFocus call stores the clock value,
\* and no later call, and no other step, changes the stored timestamp.
C14_FirstFocusIdempotent ==
    [][ /\ handleFieldFocus =>
             firstFocusTime' = IF firstFocusTime = NullNum THEN clock
                               ELSE firstFocusTime
        /\ firstFocusTime # NullNum => firstFocusTime' = firstFocusTime
        /\ useTimeDelay_handleFieldFocus =>
             timeDelay'.firstFocusTime =
                 IF timeDelay.firstFocusTime = NullNum THEN clock
                 ELSE timeDelay.firstFocusTime
        /\ (mounted = "useTimeDelay" /\ timeDelay.firstFocusTime # NullNum) =>
             timeDelay'.firstFocusTime = timeDelay.firstFocusTime
      ]_vars

\* the first focus was recorded a tick ago and is still the stored value
C14_Witness ==
    /\ mounted = "useTimeDelay"
    /\ timeDelay.formFocusTracked
    /\ timeDelay.firstFocusTime = StartTime
    /\ clock = StartTime + TickMs

\* C15: with a recorded first interaction the time gate (checkTimeDelay,
\* and the time part of checkAntiSpam) passes iff elapsed >= requiredDelay
\* and reports the deficit max(0, requiredDelay - elapsed); with the time
\* delay disabled it passes with deficit 0.
C15_TimeGate ==
    /\ ( /\ mounted = "useTimeDelay"
         /\ verdict # NullObj
         /\ timeDelay.firstFocusTime # NullNum )
       => LET elapsedMs == clock - timeDelay.firstFocusTime
              requiredMs == timeDelay.requiredDelay * 1000
          IN  IF "enabled" \in DOMAIN timeDelay.options
                 /\ ~timeDelay.options.enabled
              THEN verdict.passed /\ verdict.timeDeficitMs = 0
              ELSE /\ verdict.passed <=> elapsedMs >= requiredMs
                   /\ verdict.timeDeficitMs = Max(0, requiredMs - elapsedMs)
                   /\ elapsedMs = requiredMs - 1000 =>
                        ~verdict.passed /\ verdict.timeDeficitMs = 1000
    /\ ( /\ mounted = "useFormShield"
         /\ verdict # NullObj
         /\ firstFocusTime # NullNum )
       => LET elapsedMs == clock - firstFocusTime
              requiredMs == requiredDelay * 1000
          IN  IF ~settings.ENABLE_TIME_DELAY
              THEN verdict.timeDelayPassed /\ verdict.timeDeficitMs = 0
              ELSE /\ verdict.timeDelayPassed <=> elapsedMs >= requiredMs
                   /\ verdict.timeDeficitMs = Max(0, requiredMs - elapsedMs)
                   /\ elapsedMs = requiredMs - 1000 =>
                        ~verdict.timeDelayPassed /\ verdict.timeDeficitMs = 1000

\* one second short of the required delay
C15_Witness ==
    /\ mounted = "useTimeDelay"
    /\ verdict # NullObj
    /\ timeDelay.firstFocusTime # NullNum
    /\ clock - timeDelay.firstFocusTime = timeDelay.requiredDelay * 1000 - 1000
    /\ ~verdict.passed
    /\ verdict.timeDeficitMs = 1000

\* C16: with the time delay enabled and no interaction recorded, the time
\* gate fails with a deficit equal to the full required delay, in
\* checkTimeDelay and in the verdict of checkAntiSpam alike.
C16_NoInteractionDeficit ==
    /\ ( /\ mounted = "useTimeDelay"
         /\ verdict # NullObj
         /\ ~("enabled" \in DOMAIN timeDelay.options /\ ~timeDelay.options.enabled)
         /\ timeDelay.firstFocusTime = NullNum )
       => /\ ~verdict.passed
          /\ verdict.timeDeficitMs = timeDelay.requiredDelay * 1000
    /\ ( /\ mounted = "useFormShield"
         /\ verdict # NullObj
         /\ settings.ENABLE_TIME_DELAY
         /\ firstFocusTime = NullNum )
       => /\ ~verdict.timeDelayPassed
          /\ verdict.timeDeficitMs = requiredDelay * 1000

\* the least n with n * c >= d, for d > 0
LeastCover(d, c) == CHOOSE n \in 1..d : n * c >= d /\ (n - 1) * c < d

\* C17: calculateRequiredChallenges(d, settings) is 0 for d <= 0 and
\* min(ceil(d / CHALLENGE_TIME_VALUE), MAX_CHALLENGES) for d > 0, hence
\* always within 0..MAX_CHALLENGES; 7 s with value 5 and cap 3 gives 2,
\* 20 s gives 3.
C17_RequiredChallenges ==
    (mounted = "useChallenge" /\ verdict # NullObj)
    => LET opts == challengeHook.options
           cap == IF "maxChallenges" \in DOMAIN opts THEN opts.maxChallenges ELSE 3
           value == IF "challengeTimeValue" \in DOMAIN opts
                    THEN opts.challengeTimeValue ELSE 5
           d == verdict.timeDeficitMs
           r == verdict.requiredChallenges
       IN  /\ d <= 0 => r = 0
           /\ d > 0 => r = Min(LeastCover(d, value * 1000), cap)
           /\ r \in 0..cap
           /\ (d = 7000 /\ value = 5 /\ cap = 3) => r = 2
           /\ (d = 20000 /\ value = 5 /\ cap = 3) => r = 3

\* the capped case
C17_Witness ==
    /\ mounted = "useChallenge"
    /\ verdict # NullObj
    /\ "maxChallenges" \notin DOMAIN challengeHook.options
    /\ verdict.timeDeficitMs = 20000
    /\ verdict.requiredChallenges = 3

\* the typed answer is the answer of the current challenge, up to case and
\* surrounding blanks
RightAnswer ==
    \/ HookTypedAnswer = T_blue /\ HookChallenge.answer = A_blue
    \/ HookTypedAnswer = A_seven /\ HookChallenge.answer = A_seven

AnswerSubmitted == handleChallengeSubmit \/ useChallenge_handleChallengeSubmit

\* C18: in multi-challenge mode with requiredChallenges = R >= 2, a correct
\* answer that leaves completedChallenges < R adds 1 to completedChallenges
\* and to the round number, keeps the dialog as it is, shows a new
\* challenge and does not invoke onSuccess; the correct answer that brings
\* completedChallenges to R closes the dialog and invokes onSuccess with
\* completedChallenges = R.
C18_RoundBookkeeping ==
    [][ ( /\ RightAnswer
          /\ MultiMode
          /\ HookMetrics.requiredChallenges >= 2
          /\ AnswerSubmitted )
        => LET c == HookMetrics.completedChallenges
               R == HookMetrics.requiredChallenges
           IN  /\ c + 1 < R =>
                    /\ HookMetrics'.completedChallenges = c + 1
                    /\ HookMetrics'.requiredChallenges = R
                    /\ HookRound' = HookRound + 1
                    /\ HookDialogOpen' = HookDialogOpen
                    /\ HookChallenge' \in generateChallenge
                    /\ HookTypedAnswer' = <<>>
                    /\ onSuccessCalls' = onSuccessCalls
                    /\ successArgs' = NullObj
               /\ c + 1 = R =>
                    /\ ~HookDialogOpen'
                    /\ onSuccessCalls' = onSuccessCalls + 1
                    /\ successArgs'.challengeCompleted
                    /\ successArgs'.challengeMetrics.completedChallenges = R
      ]_vars

\* the first of two required rounds has just been answered
C18_Witness ==
    /\ mounted = "useFormShield"
    /\ showChallengeDialog
    /\ challengeMetrics.requiredChallenges = 2
    /\ challengeMetrics.completedChallenges = 1
    /\ currentChallengeNumber = 2
    /\ onSuccessCalls = 0
    /\ lastError = "Challenge 1 of 2 completed. Please complete the next challenge."

\* C19: an incorrect answer leaves completedChallenges, totalChallengeTime,
\* requiredChallenges, the round number, the stored form values and the
\* dialog's open state unchanged; it replaces the challenge, clears the
\* typed answer, reports "Incorrect answer. Please try again." and does not
\* invoke onSuccess.
C19_IncorrectAnswerFrame ==
    [][ (~RightAnswer /\ AnswerSubmitted)
        => /\ HookMetrics' = HookMetrics
           /\ HookRound' = HookRound
           /\ formValues' = formValues
           /\ HookDialogOpen' = HookDialogOpen
           /\ HookChallenge' \in generateChallenge
           /\ HookTypedAnswer' = <<>>
           /\ lastError' = "Incorrect answer. Please try again."
           /\ onSuccessCalls' = onSuccessCalls
           /\ successArgs' = NullObj
      ]_vars

\* an incorrect answer given in the second round of a sequence
C19_Witness ==
    /\ mounted = "useFormShield"
    /\ lastError = "Incorrect answer. Please try again."
    /\ showChallengeDialog
    /\ challengeMetrics.completedChallenges = 1
    /\ challengeMetrics.requiredChallenges = 2
    /\ currentChallengeNumber = 2
    /\ challengeAnswer = <<>>

\* C20: with multiple challenges disabled, any correct answer completes the
\* sequence at once, whatever requiredChallenges is: the dialog closes and
\* onSuccess is invoked with challengeCompleted = true and metrics whose
\* completedChallenges is at least 1.
C20_SingleChallenge ==
    [][ (RightAnswer /\ ~MultiMode /\ AnswerSubmitted)
        => /\ ~HookDialogOpen'
           /\ onSuccessCalls' = onSuccessCalls + 1
           /\ successArgs' # NullObj
           /\ successArgs'.challengeCompleted
           /\ successArgs'.challengeMetrics.completedChallenges >= 1
           /\ successArgs'.challengeMetrics = HookMetrics'
      ]_vars

\* one correct answer completed a sequence that asked for two
C20_Witness ==
    /\ mounted = "useChallenge"
    /\ ~MultiMode
    /\ successArgs # NullObj
    /\ successArgs.challengeCompleted
    /\ successArgs.challengeMetrics.requiredChallenges = 2
    /\ successArgs.challengeMetrics.completedChallenges = 1
    /\ ~challengeHook.showChallengeDialog

\* a sequence of two required challenges has just completed
C8_Witness ==
    /\ mounted = "useFormShield"
    /\ successArgs # NullObj
    /\ settings.ENABLE_MULTIPLE_CHALLENGES
    /\ successArgs.challengeMetrics.requiredChallenges = 2
    /\ successArgs.challengeMetrics.completedChallenges = 2
    /\ ~showChallengeDialog

-----------------------------------------------------------------------------
(* Claims about what the form hook hands out (SpecClient)                  *)

\* the state of the useFormShield instance that outlives a handler
formShieldState ==
    <<settings, honeypotFieldName, requiredDelay, firstFocusTime,
      formFocusTracked, showChallengeDialog, pendingTimers, challenge,
      challengeAnswer, formValues, challengeMetrics, currentChallengeNumber,
      challengeStartTime>>

\* C21: getFormShieldData returns a snapshot taken at the call: firstFocusTime
\* as recorded, submissionTime the clock at the call, challengeCompleted true
\* exactly when completedChallenges > 0, the current challengeMetrics and the
\* effective settings; and the call changes no state of the hook.
C21_Snapshot ==
    [][ClientSubmit =>
         /\ req'.body.firstFocusTime = firstFocusTime
         /\ req'.body.submissionTime = clock
         /\ req'.body.challengeCompleted = (challengeMetrics.completedChallenges > 0)
         /\ req'.body.challengeMetrics = challengeMetrics
         /\ req'.body.antiSpamSettings = settings
         /\ UNCHANGED formShieldState
         /\ UNCHANGED clock]_vars

\* a payload built ten seconds after the challenge that let the form through
\* was answered
C21_Witness ==
    /\ sender = "client"
    /\ req.body.firstFocusTime = StartTime
    /\ req.body.submissionTime = StartTime + TickMs
    /\ req.body.challengeCompleted
    /\ req.body.challengeMetrics.totalChallengeTime = 0
    /\ challengeStartTime = StartTime

\* a validateSubmission call (direct or through an adapter) whose failing
\* verdict opens the challenge flow: it schedules the display of the dialog
OpensChallengeFlow ==
    /\ pendingTimers' = pendingTimers + 1
    /\ validateSubmission \/ adapter_handleSubmit

\* C26: every challenge sequence begins from fresh metrics: whenever a failing
\* validateSubmission opens the challenge flow, the metrics become
\* {completedChallenges: 0, totalChallengeTime: 0, requiredChallenges: the
\* count of that verdict}; nothing of an earlier sequence carries over.
C26_SequenceStartsFresh ==
    [][OpensChallengeFlow =>
         challengeMetrics' =
             [completedChallenges |-> 0, totalChallengeTime |-> 0,
              requiredChallenges |-> verdict'.requiredChallenges]]_vars

\* C27: every challenge sequence begins at round 1 (and within a sequence
\* currentChallengeNumber = completedChallenges + 1, at most
\* max(1, requiredChallenges)); this holds also for a sequence started after
\* an earlier one was abandoned by closing the dialog between rounds.  The
\* formula is the first part: a validateSubmission that opens the challenge
\* flow while the dialog is closed leaves the round number at 1.
C27_BeginsAtRoundOne ==
    [][(~showChallengeDialog /\ OpensChallengeFlow) =>
         currentChallengeNumber' = 1]_vars

-----------------------------------------------------------------------------
(* Claims about setting a form up (SpecSetup)                              *)

\* the settings object of the hook options, with no keys when it is not given
OwnSettings == Props(Option(formShieldOptions, "settings", NullObj))

\* C22: the effective settings are the library defaults, overridden key by key
\* by the provider's settings, overridden key by key by the hook's own
\* options.settings: for each key the innermost layer that sets it wins, and
\* a key no layer sets keeps its default.
C22_SettingsLayers ==
    mounted = "useFormShield" =>
        /\ DOMAIN settings = DOMAIN ANTI_SPAM_FEATURES
        /\ \A k \in DOMAIN ANTI_SPAM_FEATURES :
              settings[k] =
                  IF k \in DOMAIN OwnSettings THEN OwnSettings[k]
                  ELSE IF k \in DOMAIN Props(providerSettings)
                  THEN providerSettings[k]
                  ELSE ANTI_SPAM_FEATURES[k]

\* the provider test: the hook switches the honeypot off that the provider
\* switches on, the dialog flag comes from the provider, the rest is default
C22_Witness ==
    /\ mounted = "useFormShield"
    /\ providerSettings = [ENABLE_HONEYPOT |-> TRUE, ENABLE_TIME_DELAY |-> TRUE,
                           ENABLE_CHALLENGE_DIALOG |-> FALSE]
    /\ OwnSettings = [ENABLE_HONEYPOT |-> FALSE, ENABLE_TIME_DELAY |-> FALSE]
    /\ settings = [ANTI_SPAM_FEATURES EXCEPT !.ENABLE_HONEYPOT = FALSE,
                                             !.ENABLE_TIME_DELAY = FALSE,
                                             !.ENABLE_CHALLENGE_DIALOG = FALSE]

\* the call of generateChallenge was given a type (a non-empty string)
TypeGiven(g) == g.type # NullStr /\ g.type # ""

\* C23: challengeRegistry.generateChallenge(type) throws when a type is given
\* that is not registered, and generateChallenge() without a type throws
\* when no type is registered; in both cases no challenge is returned and
\* the registered types are unchanged.
C23_RegistryThrows ==
    [][CallGenerateChallenge =>
         ( (\/ TypeGiven(generated') /\ generated'.type \notin registry
            \/ ~TypeGiven(generated') /\ registry = {})
           => /\ DOMAIN generated'.outcome = {"threw"}
              /\ registry' = registry )]_vars

\* the type of the example was asked for before the application registered it
C23_Witness ==
    /\ generated # NullObj
    /\ generated.type = T_image_captcha
    /\ generated.outcome = Threw("Challenge type 'image-captcha' not registered")
    /\ registry = BuiltInTypes

\* challenge.type, undefined (null) for a challenge that carries none
TypeOf(ch) == IF "type" \in DOMAIN ch THEN ch.type ELSE NullStr

Elements(seq) == { seq[i] : i \in DOMAIN seq }

\* C24: a useFormShield instance created with preferredChallengeType = T
\* holds only challenges of type T, and one created with challengeTypes = S
\* only challenges of a type in S: the initial challenge, the one generated
\* when a sequence begins, after an incorrect answer and between rounds.
C24_ChallengeTypesHonoured ==
    mounted = "useFormShield" =>
        /\ "preferredChallengeType" \in DOMAIN Props(formShieldOptions)
              => TypeOf(challenge) = formShieldOptions.preferredChallengeType
        /\ "challengeTypes" \in DOMAIN Props(formShieldOptions)
              => TypeOf(challenge) \in Elements(formShieldOptions.challengeTypes)

-----------------------------------------------------------------------------
(* Claims about a form that has been set up, and about the adapters        *)
(* (SpecSetup)                                                             *)

\* C25: the handleSubmit of an adapter invokes the wrapped submit exactly when
\* validateSubmission returned passed = true for the submitted values, and
\* never for a submission that was flagged as a bot or that failed the time
\* gate.
C25_AdapterSubmits ==
    [][adapter_handleSubmit =>
         /\ (submitted' # NullObj) <=> verdict'.passed
         /\ submitted' # NullObj => submitted'.values = formValues'.fields
         /\ (verdict'.isBot \/ ~verdict'.timeDelayPassed) => submitted' = NullObj]_vars

\* C28: the display of the dialog is deferred: validateSubmission never
\* changes showChallengeDialog itself; with ENABLE_CHALLENGE_DIALOG on and a
\* failed verdict it schedules one task for the next tick, and
\* showChallengeDialog is true once that task has run; with a passed verdict
\* or with the dialog disabled it schedules nothing.
C28_DeferredDisplay ==
    [][/\ (verdict' # NullObj /\ (validateSubmission \/ adapter_handleSubmit)) =>
            /\ showChallengeDialog' = showChallengeDialog
            /\ pendingTimers' =
                 IF settings.ENABLE_CHALLENGE_DIALOG /\ ~verdict'.passed
                 THEN pendingTimers + 1 ELSE pendingTimers
       /\ (pendingTimers' < pendingTimers /\ ShowDialogTimer) =>
            showChallengeDialog']_vars

\* validateSubmission has returned a failed verdict, the task is scheduled
\* and the dialog is not shown yet
C28_Witness ==
    /\ mounted = "useFormShield"
    /\ verdict # NullObj
    /\ ~verdict.passed
    /\ lastError # NullStr
    /\ pendingTimers = 1
    /\ ~showChallengeDialog

\* C29: the form values handed to onSuccess when a sequence completes are
\* the values passed to the most recent validateSubmission call, tagged with
\* the isBot flag of that call: the stored values change only in a
\* validateSubmission call, which stores its argument with the flag of its
\* verdict, and onSuccess is called with what is stored.
C29_SuccessValues ==
    [][/\ formValues' # formValues => (validateSubmission \/ adapter_handleSubmit)
       /\ (verdict' # NullObj /\ (validateSubmission \/ adapter_handleSubmit)) =>
            /\ formValues'.fields \in TestValues
            /\ formValues'.isBot = verdict'.isBot
            /\ verdict' = checkAntiSpam(formValues'.fields)
       /\ (successArgs' # NullObj /\ mounted = "useFormShield") =>
            /\ successArgs'.values = formValues
            /\ formValues' = formValues]_vars

\* a second sequence has completed, with the values of a submission that
\* filled the honeypot
C29_Witness ==
    /\ mounted = "useFormShield"
    /\ successArgs # NullObj
    /\ onSuccessCalls = 2
    /\ successArgs.values = [fields |-> [k \in {K_name, K_contact_input} |-> V_text],
                             isBot |-> TRUE]

\* C31: the challenge flow has no terminal failure state: an incorrect answer
\* leaves the dialog open with a fresh challenge and an empty input, and
\* every correct answer either completes the sequence (onSuccess is invoked)
\* or adds one to a completed count that stays below a required count of at
\* most MAX_CHALLENGES, so a sequence of correct answers completes after at
\* most MAX_CHALLENGES of them.
C31_NoTerminalFailure ==
    [][(showChallengeDialog /\ handleChallengeSubmit) =>
         IF RightAnswer
         THEN \/ /\ successArgs' # NullObj
                 /\ onSuccessCalls' = onSuccessCalls + 1
                 /\ ~showChallengeDialog'
              \/ /\ successArgs' = NullObj
                 /\ showChallengeDialog'
                 /\ challenge' \in generateChallenge
                 /\ challengeAnswer' = <<>>
                 /\ challengeMetrics'.completedChallenges
                        = challengeMetrics.completedChallenges + 1
                 /\ challengeMetrics'.completedChallenges
                        < challengeMetrics'.requiredChallenges
                 /\ challengeMetrics'.requiredChallenges <= settings.MAX_CHALLENGES
         ELSE /\ showChallengeDialog'
              /\ challenge' \in generateChallenge
              /\ challengeAnswer' = <<>>
              /\ challengeMetrics' = challengeMetrics]_vars

\* a sequence capped at MAX_CHALLENGES = 2 has completed with its second
\* correct answer
C31_Witness ==
    /\ mounted = "useFormShield"
    /\ settings.MAX_CHALLENGES = 2
    /\ requiredDelay = MIN_SUBMISSION_TIME + MAX_RANDOM_DELAY
    /\ successArgs # NullObj
    /\ successArgs.challengeMetrics.completedChallenges = 2
    /\ successArgs.challengeMetrics.requiredChallenges = 2
    /\ ~showChallengeDialog

-----------------------------------------------------------------------------
(* Claims about the two request wrappers and the server verdict            *)
(* (SpecServer)                                                            *)

\* C32: the Express middleware and the Next.js wrapper make the same decision
\* for every method, body and options: both invoke or both do not invoke the
\* continuation, and when they respond they send the same status code and
\* the same JSON body; what either of them did to the request at hand is
\* what the other one does with it.
C32_SameContract ==
    LET e == formShieldMiddleware_handle(req, options)
        n == withFormShield_handle(req, options)
    IN  /\ e.next = n.next
        /\ e.response = n.response
        /\ called = "formShieldMiddleware" =>
               /\ nextCalls = (IF n.next THEN 1 ELSE 0)
               /\ res = n.response
        /\ called = "withFormShield" =>
               /\ nextCalls = (IF e.next THEN 1 ELSE 0)
               /\ res = e.response

\* the Express middleware has sent the 400 that the Next.js wrapper sends
C32_Witness ==
    /\ called = "formShieldMiddleware"
    /\ req.method = "POST"
    /\ res.status = 400
    /\ res = withFormShield_handle(req, options).response
    /\ nextCalls = 0

\* settings a client may ship in antiSpamSettings: none, the defaults, and
\* every feature switched off
TestShippedSettings ==
    {NullObj, ANTI_SPAM_FEATURES,
     [ENABLE_TIME_DELAY |-> FALSE, ENABLE_CHALLENGE_DIALOG |-> FALSE,
      ENABLE_HONEYPOT |-> FALSE, ENABLE_MULTIPLE_CHALLENGES |-> FALSE,
      CHALLENGE_TIME_VALUE |-> 5, MAX_CHALLENGES |-> 3]}

\* C34: the verdict of validateFormShield does not depend on the body's
\* antiSpamSettings: the verdict returned for a body is the verdict of every
\* body that differs from it only in antiSpamSettings, under the same
\* options, so shipping other settings switches no server check off.
C34_ShippedSettingsIgnored ==
    called = "validateFormShield" =>
        \A a \in TestShippedSettings :
            ret = validateFormShield([req.body EXCEPT !.antiSpamSettings = a],
                                     options)

\* a body rejected as too quick that stays rejected when it ships settings
\* with the time delay switched off
C34_Witness ==
    /\ called = "validateFormShield"
    /\ mergedOptions(options).timeDelayCheck
    /\ ret.error = "Form submitted too quickly. Please try again."
    /\ \E a \in TestShippedSettings :
          /\ a # NullObj
          /\ ~a.ENABLE_TIME_DELAY
          /\ ~validateFormShield([req.body EXCEPT !.antiSpamSettings = a],
                                 options).valid

\* the body with a value put under one more key
WithField(body, key, value) ==
    [body EXCEPT !.fields = (key :> value) @@ body.fields]

\* every generated name, put non-empty into any of the bodies drawn, is
\* reported by validateHoneypot
GeneratedNamesReported ==
    \A name \in generateHoneypotFieldName : \A body \in TestBodies :
        validateHoneypot(WithField(body, name, V_text))
            = Result(FALSE, "Honeypot field detected", TRUE)

\* C36: every name generateHoneypotFieldName can return (25 of them) is
\* detected by the server: any body that carries a non-empty value under
\* such a name gets isBot = true from validateHoneypot, which knows nothing
\* of the name drawn.
C36_GeneratedNamesDetected ==
    called = "validateHoneypot" =>
        /\ Cardinality(generateHoneypotFieldName) = 25
        /\ GeneratedNamesReported
        /\ \A name \in generateHoneypotFieldName \cap DOMAIN req.body.fields :
              ~FalsyStr(req.body.fields[name]) => ret.isBot

\* validateHoneypot has flagged a body whose only suspicious key is a
\* generated name
C36_Witness ==
    /\ called = "validateHoneypot"
    /\ ret.isBot
    /\ \E name \in generateHoneypotFieldName :
          honeypotFields(req.body) = {name}

-----------------------------------------------------------------------------
(* Claims about answering challenges in a form that has been set up        *)
(* (SpecSetup)                                                             *)

\* answers a user may type to a challenge of a registered type
T_captcha_lower == <<"a", "b", "c", "1", "2", "3">>

TestTypedAnswers == TypedAnswers \cup {A_captcha, T_captcha_lower}

\* the challenges the registered types generate
RegistryChallenges == UNION { generate(t) : t \in registry }

\* C33: the accept/reject decision of useFormShield.handleChallengeSubmit
\* for a typed answer is challengeRegistry.validateAnswer(answer, challenge),
\* for the challenge the hook holds and for every challenge of a registered
\* type, the types registered with a validate function included.
C33_DecidesAsRegistry ==
    mounted = "useFormShield" =>
        \A ch \in {challenge} \cup RegistryChallenges :
            \A answer \in {challengeAnswer} \cup TestTypedAnswers :
                AnswerIsCorrect(answer, ch)
                    = challengeRegistry_validateAnswer(registry, answer, ch)

\* C35: in multi-challenge mode the completed rounds offset the time
\* deficit: when a sequence whose required count lies below MAX_CHALLENGES
\* (so was not capped) completes, the payload built from then on, if it
\* carries a first-focus timestamp, has (submissionTime - firstFocusTime)/1000
\* + completedChallenges * CHALLENGE_TIME_VALUE >= requiredDelay, that is,
\* validateTimeDelay with minSubmissionTime = requiredDelay and the same
\* challengeTimeValue finds it valid.
C35_RoundsOffsetDeficit ==
    [][( /\ showChallengeDialog
         /\ settings.ENABLE_MULTIPLE_CHALLENGES
         /\ challengeMetrics.requiredChallenges < settings.MAX_CHALLENGES
         /\ firstFocusTime # NullNum
         /\ handleChallengeSubmit
         /\ successArgs' # NullObj )
       => validateTimeDelay(getFormShieldData', requiredDelay,
                            settings.CHALLENGE_TIME_VALUE).valid]_vars

\* C37: a payload obtained by calling getFormShieldData from inside the
\* onSuccess continuation reports challengeCompleted = true and the final
\* metrics passed to onSuccess.  The continuation runs inside
\* handleChallengeSubmit, before any re-render, so the getFormShieldData it
\* can call is the function of the render in which the handler ran: it
\* reads the state the step starts from.
C37_PayloadInContinuation ==
    [][( /\ showChallengeDialog
         /\ handleChallengeSubmit
         /\ successArgs' # NullObj )
       => /\ getFormShieldData.challengeCompleted
          /\ getFormShieldData.challengeMetrics = successArgs'.challengeMetrics]_vars

\* C39: handleChallengeSubmit invokes onSuccess only while a challenge
\* sequence is active: the dialog has been opened by a failed
\* validateSubmission and has neither completed nor been closed; a call made
\* after that does not hand the stored values to onSuccess again.  (Calls
\* made before the scheduled display of the dialog has run are left out.)
C39_OnlyInActiveSequence ==
    [][( /\ pendingTimers = 0
         /\ successArgs' # NullObj
         /\ handleChallengeSubmit \/ handleChallengeSubmit_whileClosed )
       => showChallengeDialog]_vars

\* C38: whenever getFormShieldData reports challengeCompleted = true, its
\* challengeMetrics have completedChallenges >= max(1, requiredChallenges),
\* so the payload passes the server's validateChallenge; checked in the
\* states in which no dialog is open or about to open, those reached by
\* closing the dialog part-way through a sequence included.
C38_CompletedMeansAllRounds ==
    ( /\ mounted = "useFormShield"
      /\ ~showChallengeDialog
      /\ pendingTimers = 0
      /\ getFormShieldData.challengeCompleted )
    => /\ getFormShieldData.challengeMetrics.completedChallenges
            >= Max(1, getFormShieldData.challengeMetrics.requiredChallenges)
       /\ validateChallenge(getFormShieldData).valid

-----------------------------------------------------------------------------
(* The two challenge machines compared (SpecClient)                        *)

\* the state of the form hook's challenge machine, laid out as a useChallenge
\* instance with the same mode
asChallengeHook ==
    [options |-> [enableMultipleChallenges |-> settings.ENABLE_MULTIPLE_CHALLENGES],
     showChallengeDialog |-> showChallengeDialog,
     challenge |-> challenge,
     challengeAnswer |-> challengeAnswer,
     challengeMetrics |-> challengeMetrics,
     currentChallengeNumber |-> currentChallengeNumber,
     challengeStartTime |-> challengeStartTime]

\* C40: the two implementations of the challenge machine agree: from the
\* same metrics, round number, dialog state, mode, current challenge and
\* typed answer, a step of useFormShield.handleChallengeSubmit (with stored
\* form values) leaves the metrics, round number, dialog state, input and
\* message that useChallenge.handleChallengeSubmit leaves, and it invokes
\* onSuccess exactly when that one does, with the same flag and metrics.
C40_MachinesAgree ==
    [][(showChallengeDialog /\ formValues # NullObj /\ handleChallengeSubmit) =>
         LET did == useChallenge_submit(asChallengeHook, clock, challenge')
         IN  /\ asChallengeHook' = did.hook
             /\ lastError' = did.error
             /\ (successArgs' = NullObj) = (did.success = NullObj)
             /\ successArgs' # NullObj =>
                   /\ successArgs'.challengeCompleted = did.success.challengeCompleted
                   /\ successArgs'.challengeMetrics = did.success.challengeMetrics]_vars

\* the form hook has gone on to a second round after a first answer that
\* took time, as useChallenge does
C40_Witness ==
    /\ mounted = "useFormShield"
    /\ showChallengeDialog
    /\ currentChallengeNumber = 2
    /\ challengeMetrics.completedChallenges = 1
    /\ challengeMetrics.totalChallengeTime > 0
    /\ lastError = ProgressMessage(1, challengeMetrics.requiredChallenges)

====
